---- MODULE Spec2Model ----
(***************************************************************************)
(* Earthstar per-workspace document store: Storage2 (storage2.ts) on top   *)
(* of DriverMemory (driverMemory.ts) with the query helpers of query2.ts.  *)
(*                                                                         *)
(* JavaScript strings are modelled as sequences of UTF-16 code units, so   *)
(* that the string comparisons of the code (<, >, <=, sort) are computed   *)
(* as the language computes them.  An optional value (undefined / null /   *)
(* a number) is the empty sequence or a one-element sequence.              *)
(***************************************************************************)
EXTENDS Integers, Sequences, FiniteSets, TLC

VARIABLES
    docs,       \* DriverMemory._docs: the documents the store holds
    isClosed,   \* Storage2._isClosed
    now,        \* Storage2._now: the test clock
    last,       \* the most recent call on the store and its result
    onWrite,    \* the events that call sent to the onWrite emitter
    onChange,   \* the number of events it sent to the onChange emitter
    ingested,   \* history: the documents written to the store so far
    docs2,      \* the documents held by a second store of the workspace
    ingested2,  \* history: the documents written to the second store
    config,     \* the key-value config of the synchronous storage a wrapper wraps
    driver,     \* history: how often the store called begin and close of its driver
    peer,       \* an EarthstarPeer: its fields and its calls that are suspended
    calls       \* the write calls on a Storage3ToAsync: sleeping, and completed

storeVars == <<docs, isClosed, now, last, onWrite, onChange>>
otherVars == <<config, driver, peer, calls>>
historyVars == <<ingested, docs2, ingested2, config, driver, peer, calls>>
vars == <<docs, isClosed, now, last, onWrite, onChange, ingested, docs2, ingested2,
          config, driver, peer, calls>>

----------------------------------------------------------------------------
(* Bounds of the model *)

FirstTimestamp == 9
MaxTimestamp == 10
MaxDeleteAfter == 11
MaxNow == 11

----------------------------------------------------------------------------
(* JavaScript values *)

Undefined == <<>>
Null == <<>>
Some(v) == <<v>>

Max(a, b) == IF a >= b THEN a ELSE b

\* String(n) for a non-negative integer: its decimal digits as code units.
RECURSIVE NumberToString(_)
NumberToString(n) ==
    IF n < 10 THEN <<48 + n>>
    ELSE NumberToString(n \div 10) \o <<48 + (n % 10)>>

\* a < b on strings: lexicographic order of the code units.
RECURSIVE StrLt(_, _)
StrLt(a, b) ==
    IF b = <<>> THEN FALSE
    ELSE IF a = <<>> THEN TRUE
    ELSE IF Head(a) # Head(b) THEN Head(a) < Head(b)
    ELSE StrLt(Tail(a), Tail(b))

StrLe(a, b) == a = b \/ StrLt(a, b)

StartsWith(s, prefix) ==
    /\ Len(prefix) <= Len(s)
    /\ SubSeq(s, 1, Len(prefix)) = prefix

\* [x, y].toString(): the elements joined with ","
ArrayToString(timestamp, signature) ==
    NumberToString(timestamp) \o <<44>> \o signature

\* [t1, s1] <= [t2, s2] on two arrays: both operands are converted to
\* primitives, which for arrays are their strings, and compared as strings.
ArrayLe(t1, s1, t2, s2) ==
    StrLe(ArrayToString(t1, s1), ArrayToString(t2, s2))

\* a relational comparison one of whose operands may be undefined: undefined
\* converts to NaN and every comparison with NaN is false.
JsLe(a, b) == a # Undefined /\ b # Undefined /\ a[1] <= b[1]
JsLt(a, b) == a # Undefined /\ b # Undefined /\ a[1] < b[1]

----------------------------------------------------------------------------
(* The documents *)

WORKSPACE == "+gardenclub.xxxxxxxxxxxxxxxxxxxx"
WORKSPACE2 == "+another.xxxxxxxxxxxxxxxxxxxx"
FORMAT == "es.4"

\* "/a" holds ordinary documents, "/a!" holds ephemeral ones
Paths == {<<47, 97>>, <<47, 97, 33>>}
IsEphemeralPath(path) == \E i \in 1..Len(path) : path[i] = 33
\* "@a", "@b"
Authors == {<<64, 97>>, <<64, 98>>}
\* "", "x"
Contents == {<<>>, <<120>>}
Timestamps == FirstTimestamp..MaxTimestamp
DeleteAfters == {Null} \cup {Some(n) : n \in (FirstTimestamp + 1)..MaxDeleteAfter}
Clock == (FirstTimestamp + 1)..MaxNow
\* Storage2.set stops bumping timestamps above this value (bound of the model)
MaxSetTimestamp == MaxNow

Keypairs == [address : Authors, secret : {"good"}]
               \cup [address : {<<64, 97>>}, secret : {"bad"}]

----------------------------------------------------------------------------
(* The validator (ValidatorEs4), a collaborator of the store *)

\* the signature of a document: a deterministic, injective function of the
\* signed fields; its first code unit is "A" or "B"
Sign(d) ==
    <<65 + ((Len(d.content) + d.timestamp) % 2)>>
        \o d.author \o d.path \o NumberToString(d.timestamp)
        \o <<44>> \o d.content \o <<44>>
        \o (IF d.deleteAfter = Null THEN <<>> ELSE NumberToString(d.deleteAfter[1]))

\* a signature that does not verify: "!" followed by the right one
BadSignature(d) == <<33>> \o Sign(d)

\* validator._checkTimestampIsOk(timestamp, deleteAfter, now): TRUE when ok
checkTimestampIsOk(timestamp, deleteAfter, nowv) ==
    \/ deleteAfter = Null
    \/ /\ ~(nowv > deleteAfter[1])
       /\ ~(deleteAfter[1] <= timestamp)

\* validator.checkDocumentIsValid(doc, now): TRUE when ok
checkDocumentIsValid(doc, nowv) ==
    /\ checkTimestampIsOk(doc.timestamp, doc.deleteAfter, nowv)
    /\ doc.signature = Sign(doc)

\* validator.signDocument(keypair, doc): <<signed doc>>, or <<>> for an error
signDocument(keypair, doc) ==
    IF keypair.secret = "good" /\ keypair.address = doc.author
    THEN <<[doc EXCEPT !.signature = Sign(doc)]>>
    ELSE <<>>

\* Storage2._validatorMap: the formats that have a validator
validatorMap == {FORMAT}

MakeDoc(format, workspace, path, content, author, timestamp, deleteAfter) ==
    LET unsigned == [format |-> format, workspace |-> workspace, path |-> path,
                     content |-> content, author |-> author,
                     timestamp |-> timestamp, deleteAfter |-> deleteAfter,
                     signature |-> <<>>]
    IN [unsigned EXCEPT !.signature = Sign(unsigned)]

\* the well-formed signed documents of the workspace
SignedDocs ==
    { MakeDoc(FORMAT, WORKSPACE, p, c, a, t, da) :
        <<p, c, a, t, da>> \in
          { x \in Paths \X Contents \X Authors \X Timestamps \X DeleteAfters :
              /\ (x[5] = Null) <=> ~IsEphemeralPath(x[1])
              /\ x[5] # Null => x[5][1] > x[4] } }

BaseDocs == { d \in SignedDocs : d.content = <<>> /\ d.author = <<64, 97>>
                                  /\ d.timestamp = FirstTimestamp }

\* documents that some check of ingestDocument rejects
RejectedDocs ==
    { [d EXCEPT !.workspace = WORKSPACE2] : d \in BaseDocs }
      \cup { [d EXCEPT !.format = "es.unknown"] : d \in BaseDocs }
      \cup { [d EXCEPT !.signature = BadSignature(d)] : d \in BaseDocs }

Docs == SignedDocs \cup RejectedDocs

\* the documents of the ordinary path and those of the ephemeral path
OrdinaryDocs == {d \in Docs : ~IsEphemeralPath(d.path)}
EphemeralDocs == {d \in Docs : IsEphemeralPath(d.path)}

SameSlot(a, b) == a.path = b.path /\ a.author = b.author

\* document d is expired at clock value nowv
IsExpired(d, nowv) == d.deleteAfter # Null /\ d.deleteAfter[1] < nowv
IsLive(d, nowv) == ~IsExpired(d, nowv)

----------------------------------------------------------------------------
(* query2.ts *)

\* a query with no selector set
EmptyQuery ==
    [path |-> Undefined, pathPrefix |-> Undefined,
     timestamp_gt |-> Undefined, timestamp_lt |-> Undefined,
     author |-> Undefined,
     contentSize |-> Undefined, contentSize_gt |-> Undefined,
     contentSize_lt |-> Undefined,
     isHead |-> FALSE, limit |-> Undefined, limitBytes |-> Undefined]

\* cleanUpQuery: a query whose path contradicts its pathPrefix is reduced
\* to one with an empty result; every other query is returned as it is
cleanUpQuery(query) ==
    IF /\ query.path # Undefined /\ query.pathPrefix # Undefined
       /\ ~StartsWith(query.path[1], query.pathPrefix[1])
    THEN [query EXCEPT !.limit = Some(0)]
    ELSE query

queryMatchesDoc(query, doc) ==
    /\ ~(query.path # Undefined /\ ~(query.path[1] = doc.path))
    /\ ~(query.pathPrefix # Undefined /\ ~StartsWith(doc.path, query.pathPrefix[1]))
    /\ ~(query.timestamp_gt # Undefined /\ ~(doc.timestamp > query.timestamp_gt[1]))
    /\ ~(query.timestamp_lt # Undefined /\ ~(doc.timestamp < query.timestamp_lt[1]))
    /\ ~(query.author # Undefined /\ ~(doc.author = query.author[1]))
    /\ ~(query.contentSize # Undefined /\ ~(Len(doc.content) = query.contentSize[1]))
    /\ ~(query.contentSize_gt # Undefined /\ ~(Len(doc.content) > query.contentSize_gt[1]))
    /\ ~(query.contentSize_lt # Undefined /\ ~(Len(doc.content) < query.contentSize_lt[1]))

\* path ASC, then timestamp DESC, then signature DESC
historySortFn(a, b) ==
    IF StrLt(b.path, a.path) THEN 1
    ELSE IF StrLt(a.path, b.path) THEN -1
    ELSE IF a.timestamp < b.timestamp THEN 1
    ELSE IF a.timestamp > b.timestamp THEN -1
    ELSE IF StrLt(a.signature, b.signature) THEN 1
    ELSE IF StrLt(b.signature, a.signature) THEN -1
    ELSE 0

\* Array.prototype.sort(historySortFn) applied to the documents of S
RECURSIVE SortHistory(_)
SortHistory(S) ==
    IF S = {} THEN <<>>
    ELSE LET first == CHOOSE d \in S : \A e \in S : historySortFn(d, e) <= 0
         IN <<first>> \o SortHistory(S \ {first})

\* Array.prototype.sort() applied to the strings of S
RECURSIVE SortStrings(_)
SortStrings(S) ==
    IF S = {} THEN <<>>
    ELSE LET first == CHOOSE x \in S : \A y \in S : StrLe(x, y)
         IN <<first>> \o SortStrings(S \ {first})

\* results.slice(0, n)
Slice(seq, n) == SubSeq(seq, 1, IF n < Len(seq) THEN n ELSE Len(seq))

----------------------------------------------------------------------------
(* driverMemory.ts; D is the content of _docs, at most one document for  *)
(* each path and author, and nowv is the argument passed as now            *)

\* an upsert that would keep the document already in the slot
upsertDocumentKeepingOld(D, doc) == D \cup {doc}

\* an upsert that would keep a document of the slot with a higher timestamp
upsertDocumentKeepingNewer(D, doc) ==
    IF \E d \in D : SameSlot(d, doc) /\ d.timestamp > doc.timestamp THEN D
    ELSE {d \in D : ~SameSlot(d, doc)} \cup {doc}

\* slots[doc.author] = doc
upsertDocument(D, doc) ==
    {d \in D : ~SameSlot(d, doc)} \cup {doc}

\* Object.keys(this._docs)
PathsOf(D) == {d.path : d \in D}

\* a fold that would apply the selectors before it keeps the head
DocsThisPathSelectorsFirst(D, query, nowv, path) ==
    LET pathSlots == {d \in D : d.path = path /\ queryMatchesDoc(query, d)}
        kept == IF query.isHead /\ pathSlots # {}
                THEN {SortHistory(pathSlots)[1]}
                ELSE pathSlots
    IN {d \in kept : d.deleteAfter = Null \/ JsLe(nowv, d.deleteAfter)}

\* a fold that would drop the expired documents before it keeps the head
DocsThisPathLiveFirst(D, query, nowv, path) ==
    LET pathSlots == {d \in D : /\ d.path = path
                                 /\ (d.deleteAfter = Null \/ JsLe(nowv, d.deleteAfter))}
        kept == IF query.isHead /\ pathSlots # {}
                THEN {SortHistory(pathSlots)[1]}
                ELSE pathSlots
    IN {d \in kept : queryMatchesDoc(query, d)}

\* the documents one path contributes to the result of documentQuery
DocsThisPath(D, query, nowv, path) ==
    LET pathSlots == {d \in D : d.path = path}
        kept == IF query.isHead
                THEN {SortHistory(pathSlots)[1]}
                ELSE pathSlots
    IN {d \in kept : /\ queryMatchesDoc(query, d)
                      /\ (d.deleteAfter = Null \/ JsLe(nowv, d.deleteAfter))}

\* a loop that would also cut before the document that brings the sum to
\* limitBytes
RECURSIVE ApplyLimitBytesBelow(_, _, _, _)
ApplyLimitBytesBelow(results, limitBytes, ii, b) ==
    IF ii > Len(results) THEN results
    ELSE LET b2 == b + Len(results[ii].content)
         IN IF b2 >= limitBytes THEN SubSeq(results, 1, ii - 1)
            ELSE ApplyLimitBytesBelow(results, limitBytes, ii + 1, b2)

\* the loop that cuts results before the document that brings the sum of
\* the content lengths above limitBytes
RECURSIVE ApplyLimitBytes(_, _, _, _)
ApplyLimitBytes(results, limitBytes, ii, b) ==
    IF ii > Len(results) THEN results
    ELSE LET b2 == b + Len(results[ii].content)
         IN IF b2 > limitBytes THEN SubSeq(results, 1, ii - 1)
            ELSE ApplyLimitBytes(results, limitBytes, ii + 1, b2)

documentQuery(D, q, nowv) ==
    LET query == cleanUpQuery(q) IN
    IF query.limit = Some(0) \/ query.limitBytes = Some(0) THEN <<>>
    ELSE IF query.path # Undefined /\ query.path[1] \notin PathsOf(D) THEN <<>>
    ELSE
      LET pathsToConsider == IF query.path # Undefined THEN {query.path[1]}
                             ELSE PathsOf(D)
          sorted == SortHistory(UNION {DocsThisPath(D, query, nowv, path) :
                                          path \in pathsToConsider})
          limited == IF query.limit # Undefined THEN Slice(sorted, query.limit[1])
                     ELSE sorted
      IN IF query.limitBytes # Undefined
         THEN ApplyLimitBytes(limited, query.limitBytes[1], 1, 0)
         ELSE limited

\* a pathQuery that would not re-apply the limit to the paths
pathQueryUnlimited(D, q, nowv) ==
    LET query == cleanUpQuery(q) IN
    IF query.limit = Some(0) \/ query.limitBytes = Some(0) THEN <<>>
    ELSE
      LET found == documentQuery(D, [query EXCEPT !.limit = Undefined], nowv)
      IN SortStrings({found[i].path : i \in 1..Len(found)})

pathQuery(D, q, nowv) ==
    LET query == cleanUpQuery(q) IN
    IF query.limit = Some(0) \/ query.limitBytes = Some(0) THEN <<>>
    ELSE
      LET found == documentQuery(D, [query EXCEPT !.limit = Undefined], nowv)
          paths == SortStrings({found[i].path : i \in 1..Len(found)})
      IN IF query.limit # Undefined THEN Slice(paths, query.limit[1]) ELSE paths

driverAuthors(D, nowv) ==
    SortStrings({d.author : d \in {e \in D :
                    ~(e.deleteAfter # Null /\ JsLt(e.deleteAfter, nowv))}})

----------------------------------------------------------------------------
(* storage2.ts: the read operations.  Storage2 calls the driver without  *)
(* the now argument, so the driver's parameter now is undefined.          *)

Returned(v) == [threw |-> FALSE, value |-> v]
StorageIsClosedError == [threw |-> TRUE, value |-> <<>>]

\* the body of Storage2.getDocument after _assertNotClosed
getDocumentOf(D, path) ==
    LET doc == documentQuery(D, [EmptyQuery EXCEPT !.path = Some(path),
                                                   !.isHead = TRUE], Undefined)
    IN IF Len(doc) = 0 THEN <<>> ELSE <<doc[1]>>

authors ==
    IF isClosed THEN StorageIsClosedError
    ELSE Returned(driverAuthors(docs, Undefined))

paths(query) ==
    IF isClosed THEN StorageIsClosedError
    ELSE Returned(pathQuery(docs, query, Undefined))

documents(query) ==
    IF isClosed THEN StorageIsClosedError
    ELSE Returned(documentQuery(docs, query, Undefined))

contents(query) ==
    IF isClosed THEN StorageIsClosedError
    ELSE LET found == documentQuery(docs, query, Undefined)
         IN Returned([i \in 1..Len(found) |-> found[i].content])

getDocument(path) ==
    IF isClosed THEN StorageIsClosedError
    ELSE Returned(getDocumentOf(docs, path))

getContent(path) ==
    IF isClosed THEN StorageIsClosedError
    ELSE LET doc == getDocumentOf(docs, path)
         IN Returned(IF doc = <<>> THEN <<>> ELSE <<doc[1].content>>)

----------------------------------------------------------------------------
(* storage2.ts: the write operations on an open store holding D at clock *)
(* value nowv: the result, the documents held afterwards, the events sent *)

\* doc is the document handed to ingestDocument, or built by set
Outcome(result, D, doc, events) ==
    [result |-> result, docs |-> D, doc |-> doc, onWrite |-> events,
     onChange |-> Len(events)]

\* an event that would not carry the caller's isLocal flag
WriteEventAlwaysLocal(doc, isLocal, isLatest) ==
    [kind |-> "DOCUMENT_WRITE", isLocal |-> TRUE, isLatest |-> isLatest,
     document |-> doc]

WriteEvent(doc, isLocal, isLatest) ==
    [kind |-> "DOCUMENT_WRITE", isLocal |-> isLocal, isLatest |-> isLatest,
     document |-> doc]

\* the document found in the slot of doc, after the expiry check
existingSameAuthor(D, doc, nowv) ==
    LET found == documentQuery(D, [EmptyQuery EXCEPT !.path = Some(doc.path),
                                                     !.author = Some(doc.author)],
                               Undefined)
    IN IF Len(found) = 0 THEN <<>>
       ELSE IF found[1].deleteAfter # Null /\ nowv > found[1].deleteAfter[1] THEN <<>>
       ELSE <<found[1]>>

\* incoming doc is older or identical
IsOlderOrIdentical(doc, existing) ==
    ArrayLe(doc.timestamp, doc.signature, existing.timestamp, existing.signature)

\* an ingestDocument that would not compare doc.workspace with the store's
ingestDocumentAnyWorkspace(D, doc, isLocal, nowv) ==
    IF doc.format \notin validatorMap
    THEN Outcome("ValidationError", D, <<doc>>, <<>>)
    ELSE IF ~checkDocumentIsValid(doc, nowv)
    THEN Outcome("ValidationError", D, <<doc>>, <<>>)
    ELSE
      LET existing == existingSameAuthor(D, doc, nowv) IN
      IF existing # <<>> /\ IsOlderOrIdentical(doc, existing[1])
      THEN Outcome("Ignored", D, <<doc>>, <<>>)
      ELSE LET D2 == upsertDocument(D, doc)
               latestDoc == getDocumentOf(D2, doc.path)
               isLatest == (<<doc>> = latestDoc)
           IN Outcome("Accepted", D2, <<doc>>, <<WriteEvent(doc, isLocal, isLatest)>>)

\* an ingestDocument that would upsert before it compares with the
\* document of the slot
ingestDocumentUpsertFirst(D, doc, isLocal, nowv) ==
    IF doc.format \notin validatorMap
    THEN Outcome("ValidationError", D, <<doc>>, <<>>)
    ELSE IF ~checkDocumentIsValid(doc, nowv)
    THEN Outcome("ValidationError", D, <<doc>>, <<>>)
    ELSE IF doc.workspace # WORKSPACE
    THEN Outcome("ValidationError", D, <<doc>>, <<>>)
    ELSE
      LET existing == existingSameAuthor(D, doc, nowv)
          D2 == upsertDocument(D, doc) IN
      IF existing # <<>> /\ IsOlderOrIdentical(doc, existing[1])
      THEN Outcome("Ignored", D2, <<doc>>, <<>>)
      ELSE LET latestDoc == getDocumentOf(D2, doc.path)
               isLatest == (<<doc>> = latestDoc)
           IN Outcome("Accepted", D2, <<doc>>, <<WriteEvent(doc, isLocal, isLatest)>>)

ingestDocument(D, doc, isLocal, nowv) ==
    IF doc.format \notin validatorMap
    THEN Outcome("ValidationError", D, <<doc>>, <<>>)
    ELSE IF ~checkDocumentIsValid(doc, nowv)
    THEN Outcome("ValidationError", D, <<doc>>, <<>>)
    ELSE IF doc.workspace # WORKSPACE
    THEN Outcome("ValidationError", D, <<doc>>, <<>>)
    ELSE
      LET existing == existingSameAuthor(D, doc, nowv) IN
      IF existing # <<>> /\ IsOlderOrIdentical(doc, existing[1])
      THEN Outcome("Ignored", D, <<doc>>, <<>>)
      ELSE LET D2 == upsertDocument(D, doc)
               latestDoc == getDocumentOf(D2, doc.path)
               isLatest == (<<doc>> = latestDoc)
           IN Outcome("Accepted", D2, <<doc>>, <<WriteEvent(doc, isLocal, isLatest)>>)

\* docToSet.deleteAfter || null
OrNull(v) == IF v = Undefined \/ v = Some(0) THEN Null ELSE v

set(D, keypair, docToSet, nowv) ==
    IF docToSet.format \notin validatorMap
    THEN Outcome("ValidationError", D, <<>>, <<>>)
    ELSE
      LET shouldBumpTimestamp ==
              docToSet.timestamp = Some(0) \/ docToSet.timestamp = Undefined
          timestamp == IF shouldBumpTimestamp THEN nowv ELSE docToSet.timestamp[1]
          deleteAfter == OrNull(docToSet.deleteAfter)
      IN
      IF ~shouldBumpTimestamp /\ ~checkTimestampIsOk(timestamp, deleteAfter, nowv)
      THEN Outcome("ValidationError", D, <<>>, <<>>)
      ELSE
        LET latest == getDocumentOf(D, docToSet.path)
            existingDocTimestamp == IF latest = <<>> THEN 0 ELSE latest[1].timestamp
            bumped == IF shouldBumpTimestamp
                      THEN Max(timestamp, existingDocTimestamp + 1)
                      ELSE timestamp
            expires == IF shouldBumpTimestamp /\ deleteAfter # Null
                       THEN Some(bumped + (deleteAfter[1] - timestamp))
                       ELSE deleteAfter
            doc == [format |-> docToSet.format, workspace |-> WORKSPACE,
                    path |-> docToSet.path, content |-> docToSet.content,
                    author |-> keypair.address, timestamp |-> bumped,
                    deleteAfter |-> expires, signature |-> <<>>]
            signedDoc == signDocument(keypair, doc)
        IN IF signedDoc = <<>>
           THEN Outcome("ValidationError", D, <<doc>>, <<>>)
           ELSE ingestDocument(D, signedDoc[1], TRUE, nowv)

\* the docToSet arguments of set
DocsToSet ==
    { dts \in [format : {FORMAT}, path : Paths, content : Contents,
               timestamp : {Undefined} \cup {Some(t) : t \in Timestamps},
               deleteAfter : DeleteAfters] :
        (dts.deleteAfter = Null) <=> ~IsEphemeralPath(dts.path) }
      \cup { dts \in [format : {FORMAT, "es.unknown"}, path : Paths, content : {<<>>},
                      timestamp : {Undefined, Some(0)}, deleteAfter : {Null, Some(0)}] :
               dts.format = FORMAT <=> dts.timestamp = Some(0) }

OrdinaryDocsToSet == {dts \in DocsToSet : ~IsEphemeralPath(dts.path)}
EphemeralDocsToSet == {dts \in DocsToSet : IsEphemeralPath(dts.path)}

----------------------------------------------------------------------------
(* What a store is constructed with, and what stands beside it *)

\* the keys of the config of a storage: "/a", which is also a path, and "k"
ConfigKeys == {<<47, 97>>, <<107>>}
ConfigValues == {<<120>>, <<118>>}
\* StorageMinimal._config = {}
NoConfig == [key \in ConfigKeys |-> Undefined]

\* no call was made on the wrapper of the storage
NoCalls == [sleeping |-> {}, completed |-> <<>>, events |-> <<>>]

\* the driver of a constructed store: begin was called, close was not
BegunDriver == [begin |-> 1, close |-> 0]
\* the driver handed to the constructor: no call yet
FreshDriver == [begin |-> 0, close |-> 0]

----------------------------------------------------------------------------
(* peer.ts: EarthstarPeer.  A peer is a record of its fields; hatching    *)
(* holds, for each hatch() call suspended at its await, the value that     *)
(* call read from the kvStore, and removing the removeAndCloseWorkspace    *)
(* calls suspended at storage.close.  result is what the latest call       *)
(* threw, and readied is history: how often the peer has become ready.     *)
(* The kvStore is the values it holds under '-peers' and '-workspaces' and *)
(* the set() requests it has been given and has not carried out yet.       *)

MaxHatching == 2
MaxRemoving == 1
\* the set() requests a kvStore has not carried out yet (bound of the model)
MaxPendingSets == 2

PeerUrls == {"wss://pub.example/rpc"}
PeerWorkspaces == {WORKSPACE, WORKSPACE2}
PeerTrusts == {"UNKNOWN", "TRUSTED"}

DEFAULT_PEER_INFO ==
    [peerUrl |-> "?", trust |-> "UNKNOWN", workspacesToSyncWithPeer |-> <<>>,
     commonWorkspaces |-> Null, peerLastSeen |-> Null]

\* Record<PeerUrl, PeerInfo> = {}, Record<WorkspaceAddress, IStorageAsync> = {}
NoPeers == [url \in PeerUrls |-> Undefined]
NoStorages == [workspace \in PeerWorkspaces |-> Undefined]

\* JSON.stringify(value, null, 4) of a Record: the text of its entries, a
\* key whose value is undefined having none; and a text that is not JSON
JsonStringify(value) ==
    [json |-> TRUE,
     entries |-> {<<key, value[key][1]>> :
                     key \in {k \in DOMAIN value : value[k] # Undefined}}]
NotJson == [json |-> FALSE, entries |-> {}]
\* JSON.parse(text) of the text of a Record<PeerUrl, PeerInfo>: <<value>>,
\* or <<>> when it throws
JsonParse(text) ==
    IF text.json
    THEN <<[url \in PeerUrls |->
              IF \E entry \in text.entries : entry[1] = url
              THEN Some((CHOOSE entry \in text.entries : entry[1] = url)[2])
              ELSE Undefined]>>
    ELSE <<>>

\* the kvStore a peer is constructed with
EmptyKvStore == [peers |-> Undefined, workspaces |-> Undefined, pending |-> <<>>]

\* IKvStore.set(key, value): the call returns a promise, which the peer does
\* not await; the store holds the request until it carries it out
kvStoreSet(kvStore, key, value) ==
    [kvStore EXCEPT !.pending = Append(@, [key |-> key, value |-> value])]

\* the store carries out its oldest request
kvStoreLands(kvStore) ==
    [kvStore EXCEPT ![Head(kvStore.pending).key] = Some(Head(kvStore.pending).value),
                    !.pending = Tail(@)]

\* the store when it has carried out every request it holds
RECURSIVE kvStoreSettled(_)
kvStoreSettled(kvStore) ==
    IF kvStore.pending = <<>> THEN kvStore
    ELSE kvStoreSettled(kvStoreLands(kvStore))

\* await IKvStore.get(key): the store serves its requests in the order it
\* was given them, so a get finds what the earlier sets have stored
kvStoreGet(kvStore, key) == kvStoreSettled(kvStore)[key]

\* constructor(kvStore) and the field initialisers
PeerOn(kvStore) ==
    [lifecycle |-> "notYetHatched", kvStore |-> kvStore,
     storages |-> NoStorages, peers |-> NoPeers,
     hatching |-> <<>>, removing |-> 0, result |-> "none", readied |-> 0]
NewPeer == PeerOn(EmptyKvStore)

\* _assertReady() throws
NotReady(p) == p.lifecycle # "ready"
PeerThrows(p, error) == [p EXCEPT !.result = error]

\* _saveWorkspaces(): listStorages() asserts that the peer is ready, then
\* the workspaces and the class of their storages are saved
saveWorkspaces(p) ==
    IF NotReady(p) THEN PeerThrows(p, "PeerLifecycleError")
    ELSE [p EXCEPT !.result = "none",
                   !.kvStore = kvStoreSet(@, "workspaces", JsonStringify(
                       [w \in PeerWorkspaces |->
                          IF p.storages[w] # Undefined
                          THEN Some("StorageAsync") ELSE Undefined]))]

\* _savePeers(): this._kvStore.set('-peers', JSON.stringify(this._peers)),
\* not awaited
savePeers(p) ==
    [p EXCEPT !.result = "none",
              !.kvStore = kvStoreSet(@, "peers", JsonStringify(p.peers))]

\* hatch() up to its await
hatch(p) ==
    IF p.lifecycle # "notYetHatched" THEN PeerThrows(p, "PeerLifecycleError")
    ELSE [p EXCEPT !.result = "none",
                   !.hatching = Append(@, kvStoreGet(p.kvStore, "peers"))]

\* hatch() from its await on: the peer data read is loaded
hatchResume(p) ==
    LET existingPeerData == Head(p.hatching)
        parsed == IF existingPeerData = Undefined THEN <<>>
                  ELSE JsonParse(existingPeerData[1])
    IN [p EXCEPT !.hatching = Tail(@),
                 !.peers = IF parsed = <<>> THEN @ ELSE parsed[1],
                 !.lifecycle = "ready",
                 !.readied = IF p.lifecycle = "ready" THEN @ ELSE @ + 1]

addWorkspace(p, workspace) ==
    IF NotReady(p) THEN PeerThrows(p, "PeerLifecycleError")
    ELSE saveWorkspaces([p EXCEPT !.storages[workspace] = Some("open")])

\* getWorkspaceStorage, listWorkspaces, listStorages, getPeerInfo,
\* listPeerUrls, listPeerInfos
readPeer(p) ==
    IF NotReady(p) THEN PeerThrows(p, "PeerLifecycleError")
    ELSE [p EXCEPT !.result = "none"]

\* removeAndCloseWorkspace(workspaceAddress) up to its await
removeAndCloseWorkspace(p, workspace) ==
    IF NotReady(p) THEN PeerThrows(p, "PeerLifecycleError")
    ELSE IF p.storages[workspace] = Undefined THEN PeerThrows(p, "TypeError")
    ELSE [p EXCEPT !.result = "none",
                   !.storages[workspace] = Some("closed"),
                   !.removing = @ + 1]

\* removeAndCloseWorkspace from its await on
removeResume(p) ==
    saveWorkspaces([p EXCEPT !.removing = @ - 1])

addPeer(p, peerUrl) ==
    IF NotReady(p) THEN PeerThrows(p, "PeerLifecycleError")
    ELSE IF p.peers[peerUrl] = Undefined
    THEN savePeers([p EXCEPT !.peers[peerUrl] =
                        Some([DEFAULT_PEER_INFO EXCEPT !.peerUrl = peerUrl])])
    ELSE [p EXCEPT !.result = "none"]

\* the partialInfo arguments of updatePeer: a trust, or a peerUrl
OtherPeerUrl == "wss://other.example/rpc"
PartialInfos ==
    {[trust |-> trust] : trust \in PeerTrusts}
      \cup {[peerUrl |-> url] : url \in PeerUrls \cup {OtherPeerUrl}}
\* {...info, ...partialInfo}
Spread(info, partialInfo) ==
    [field \in DOMAIN info |->
        IF field \in DOMAIN partialInfo THEN partialInfo[field] ELSE info[field]]
updatePeer(p, peerUrl, partialInfo) ==
    IF NotReady(p) THEN PeerThrows(p, "PeerLifecycleError")
    ELSE IF p.peers[peerUrl] = Undefined THEN PeerThrows(p, "Error")
    ELSE savePeers([p EXCEPT !.peers[peerUrl] =
                        Some(Spread(p.peers[peerUrl][1], partialInfo))])

removePeer(p, peerUrl) ==
    IF NotReady(p) THEN PeerThrows(p, "PeerLifecycleError")
    ELSE savePeers([p EXCEPT !.peers[peerUrl] = Undefined])

peerClose(p) == [p EXCEPT !.lifecycle = "closed", !.result = "none"]

----------------------------------------------------------------------------
(* The state machine.  last is the most recent call and its result;       *)
(* onWrite and onChange are what that call sent to the two emitters.       *)

Init ==
    /\ docs = {}
    /\ isClosed = FALSE
    /\ now \in Clock
    /\ last = [op |-> "new", result |-> "none", replaced |-> FALSE]
    /\ onWrite = <<>>
    /\ onChange = 0
    /\ ingested = {}
    /\ docs2 = {}
    /\ ingested2 = {}
    /\ config = NoConfig
    /\ driver = BegunDriver
    /\ peer = NewPeer
    /\ calls = NoCalls

\* a call on a closed store: _assertNotClosed throws
Throws(op) ==
    /\ last' = [op |-> op, result |-> "StorageIsClosedError", replaced |-> FALSE]
    /\ onWrite' = <<>>
    /\ onChange' = 0
    /\ UNCHANGED <<docs, isClosed, now>>

\* last.replaced: the call took a document out of the store
Performs(op, outcome) ==
    /\ docs' = outcome.docs
    /\ last' = [op |-> op, result |-> outcome.result,
                replaced |-> (docs \ outcome.docs # {})]
    /\ onWrite' = outcome.onWrite
    /\ onChange' = outcome.onChange
    /\ UNCHANGED <<isClosed, now>>

\* an ingestDocument that would not call _assertNotClosed
IngestDocumentUnguarded(doc, isLocal) ==
    Performs("ingestDocument", ingestDocument(docs, doc, isLocal, now))

IngestDocument(doc, isLocal) ==
    IF isClosed THEN Throws("ingestDocument")
    ELSE Performs("ingestDocument", ingestDocument(docs, doc, isLocal, now))

\* the document set built has a timestamp within the bound of the model
WithinBound(outcome) ==
    \A i \in 1..Len(outcome.doc) : outcome.doc[i].timestamp <= MaxSetTimestamp

Set(keypair, docToSet) ==
    /\ isClosed \/ WithinBound(set(docs, keypair, docToSet, now))
    /\ IF isClosed THEN Throws("set")
       ELSE Performs("set", set(docs, keypair, docToSet, now))

\* the calls of driver.close() counted (bound of the model)
MaxCloses == 3

\* close(): this._isClosed = true; this._driver.close()
Close ==
    /\ driver.close < MaxCloses
    /\ isClosed' = TRUE
    /\ driver' = [driver EXCEPT !.close = @ + 1]
    /\ last' = [op |-> "close", result |-> "none", replaced |-> FALSE]
    /\ onWrite' = <<>>
    /\ onChange' = 0
    /\ UNCHANGED <<docs, now>>

\* the test sets storage._now to a later instant
AdvanceClock ==
    /\ now < MaxNow
    /\ now' \in (now + 1)..MaxNow
    /\ UNCHANGED <<docs, isClosed, last, onWrite, onChange>>

\* a direct call of the driver: DriverMemory.upsertDocument(doc)
UpsertDocument(doc) ==
    /\ docs' = upsertDocument(docs, doc)
    /\ last' = [op |-> "upsertDocument", result |-> "none",
                replaced |-> (docs \ upsertDocument(docs, doc) # {}),
                previous |-> docs \ upsertDocument(docs, doc)]
    /\ onWrite' = <<>>
    /\ onChange' = 0
    /\ UNCHANGED <<isClosed, now>>

\* a store whose callers write to the ordinary path
Next ==
    \/ \E doc \in OrdinaryDocs, isLocal \in BOOLEAN :
          IngestDocument(doc, isLocal) /\ UNCHANGED historyVars
    \/ \E keypair \in Keypairs, docToSet \in OrdinaryDocsToSet :
          Set(keypair, docToSet) /\ UNCHANGED historyVars
    \/ Close /\ UNCHANGED <<ingested, docs2, ingested2, config, peer, calls>>
    \/ AdvanceClock /\ UNCHANGED historyVars

Spec == Init /\ [][Next]_vars

\* a store whose callers write to the ephemeral path
NextEphemeral ==
    \/ \E doc \in EphemeralDocs, isLocal \in BOOLEAN :
          IngestDocument(doc, isLocal) /\ UNCHANGED historyVars
    \/ \E keypair \in Keypairs, docToSet \in EphemeralDocsToSet :
          Set(keypair, docToSet) /\ UNCHANGED historyVars
    \/ Close /\ UNCHANGED <<ingested, docs2, ingested2, config, peer, calls>>
    \/ AdvanceClock /\ UNCHANGED historyVars

SpecEphemeral == Init /\ [][NextEphemeral]_vars

\* a store and direct calls of its driver
NextDriver ==
    \/ \E doc \in OrdinaryDocs, isLocal \in BOOLEAN :
          IngestDocument(doc, isLocal) /\ UNCHANGED historyVars
    \/ \E keypair \in Keypairs, docToSet \in OrdinaryDocsToSet :
          Set(keypair, docToSet) /\ UNCHANGED historyVars
    \/ \E doc \in OrdinaryDocs : UpsertDocument(doc) /\ UNCHANGED historyVars
    \/ AdvanceClock /\ UNCHANGED historyVars

SpecDriver == Init /\ [][NextDriver]_vars

\* a store that is handed documents the validator accepts, of its own
\* workspace and of another one
ValidatedDocs ==
    {d \in OrdinaryDocs : d.format \in validatorMap /\ d.signature = Sign(d)}

NextWorkspace ==
    \/ \E doc \in ValidatedDocs, isLocal \in BOOLEAN :
          IngestDocument(doc, isLocal) /\ UNCHANGED historyVars
    \/ \E keypair \in Keypairs, docToSet \in OrdinaryDocsToSet :
          Set(keypair, docToSet) /\ UNCHANGED historyVars
    \/ AdvanceClock /\ UNCHANGED historyVars

SpecWorkspace == Init /\ [][NextWorkspace]_vars

\* doc passes the checks of ingestDocument and is not expired at nowv
PassesChecks(doc, nowv) ==
    /\ doc.format \in validatorMap
    /\ checkDocumentIsValid(doc, nowv)
    /\ doc.workspace = WORKSPACE
    /\ IsLive(doc, nowv)

\* ingestDocument under a fixed clock, with the history of what was ingested
TrackedIngest(doc, isLocal) ==
    /\ IngestDocument(doc, isLocal)
    /\ ingested' = ingested \cup (IF PassesChecks(doc, now) THEN {doc} ELSE {})
    /\ UNCHANGED <<docs2, ingested2, otherVars>>

NextLWW ==
    \E doc \in OrdinaryDocs, isLocal \in BOOLEAN : TrackedIngest(doc, isLocal)

SpecLWW == Init /\ [][NextLWW]_vars

\* two stores with the same validators and the same fixed clock, each
\* ingesting documents of one author, every document at most once
MaxConvergeIngests == 3
ConvergeDocs ==
    {d \in SignedDocs : d.author = <<64, 97>>
                          /\ (IsEphemeralPath(d.path) => d.content = <<>>)}

ConvergeFirst(doc) ==
    /\ doc \notin ingested
    /\ Cardinality(ingested) < MaxConvergeIngests
    /\ TrackedIngest(doc, FALSE)

ConvergeSecond(doc) ==
    /\ doc \notin ingested2
    /\ Cardinality(ingested2) < MaxConvergeIngests
    /\ docs2' = ingestDocument(docs2, doc, FALSE, now).docs
    /\ ingested2' = ingested2 \cup (IF PassesChecks(doc, now) THEN {doc} ELSE {})
    /\ UNCHANGED <<storeVars, ingested, otherVars>>

NextConverge ==
    \/ \E doc \in ConvergeDocs : ConvergeFirst(doc)
    \/ \E doc \in ConvergeDocs : ConvergeSecond(doc)

SpecConverge == Init /\ [][NextConverge]_vars

----------------------------------------------------------------------------
(* storage2.ts: the constructor and close, with the calls they make on    *)
(* the driver.  A validator is its format and the workspace addresses its  *)
(* _checkWorkspaceIsValid accepts.                                         *)

MaxValidators == 3

\* ValidatorEs4, a validator of another format that accepts one of the
\* two workspaces only, and one that accepts neither
TheValidators ==
    {[format |-> FORMAT, accepted |-> {WORKSPACE, WORKSPACE2}],
     [format |-> "es.5", accepted |-> {WORKSPACE2}],
     [format |-> "es.6", accepted |-> {}]}
ValidatorLists == UNION {[1..k -> TheValidators] : k \in 0..MaxValidators}
WorkspaceAddresses == {WORKSPACE, WORKSPACE2, "not a workspace"}

\* val._checkWorkspaceIsValid(workspace): <<>> for true, or <<the error>>
checkWorkspaceIsValid(val, workspace) ==
    IF workspace \in val.accepted THEN <<>>
    ELSE <<[name |-> "ValidationError", message |-> <<val.format, workspace>>]>>

\* a constructor that would ask the first validator only
constructStorage2FirstValidator(validators, workspace) ==
    IF Len(validators) = 0
    THEN [threw |-> <<[name |-> "ValidationError",
                       message |-> <<"must provide at least one validator to MegaStorage">>]>>,
          validatorMap |-> {}, begin |-> 0]
    ELSE IF checkWorkspaceIsValid(validators[1], workspace) # <<>>
         THEN [threw |-> checkWorkspaceIsValid(validators[1], workspace),
               validatorMap |-> {validators[i].format : i \in 1..Len(validators)},
               begin |-> 0]
         ELSE [threw |-> <<>>,
               validatorMap |-> {validators[i].format : i \in 1..Len(validators)},
               begin |-> 1]

\* new Storage2(driver, validators, workspace): what it throws, the formats
\* of its _validatorMap and the number of calls of driver.begin
constructStorage2(validators, workspace) ==
    IF Len(validators) = 0
    THEN [threw |-> <<[name |-> "ValidationError",
                       message |-> <<"must provide at least one validator to MegaStorage">>]>>,
          validatorMap |-> {}, begin |-> 0]
    ELSE LET errs == [i \in 1..Len(validators) |->
                         checkWorkspaceIsValid(validators[i], workspace)]
             workspaceErrs == SelectSeq(errs, LAMBDA err : err # <<>>)
         IN IF Len(workspaceErrs) = Len(validators)
            THEN [threw |-> workspaceErrs[1],
                  validatorMap |-> {validators[i].format : i \in 1..Len(validators)},
                  begin |-> 0]
            ELSE [threw |-> <<>>,
                  validatorMap |-> {validators[i].format : i \in 1..Len(validators)},
                  begin |-> 1]

\* before the constructor is called: a driver that no store has begun
InitConstruct ==
    /\ docs = {}
    /\ isClosed = FALSE
    /\ now \in Clock
    /\ last = [op |-> "none", result |-> "none", replaced |-> FALSE]
    /\ onWrite = <<>>
    /\ onChange = 0
    /\ ingested = {}
    /\ docs2 = {}
    /\ ingested2 = {}
    /\ config = NoConfig
    /\ driver = FreshDriver
    /\ peer = NewPeer
    /\ calls = NoCalls

Construct(validators, workspace) ==
    /\ last.op = "none"
    /\ last' = [op |-> "constructor", result |-> "none", replaced |-> FALSE,
                validators |-> validators, workspace |-> workspace,
                threw |-> constructStorage2(validators, workspace).threw,
                validatorMap |-> constructStorage2(validators, workspace).validatorMap]
    /\ driver' = [driver EXCEPT
                     !.begin = @ + constructStorage2(validators, workspace).begin]
    /\ UNCHANGED <<docs, isClosed, now, onWrite, onChange>>
    /\ UNCHANGED <<ingested, docs2, ingested2, config, peer, calls>>

\* the store exists: its constructor returned
Constructed == last.op # "none" /\ (last.op = "constructor" => last.threw = <<>>)

\* close() on a store whose constructor returned
CountedClose ==
    /\ Constructed
    /\ Close
    /\ UNCHANGED <<ingested, docs2, ingested2, config, peer, calls>>

NextConstruct ==
    \/ \E validators \in ValidatorLists, workspace \in WorkspaceAddresses :
          Construct(validators, workspace)
    \/ CountedClose

SpecConstruct == InitConstruct /\ [][NextConstruct]_vars

----------------------------------------------------------------------------
(* An EarthstarPeer and its callers.  Each action is one call of a method *)
(* up to its first await, or the rest of a suspended call.                 *)

\* the peer data an earlier run has left in the kvStore
StoredPeers ==
    {Undefined, Some(NotJson)}
      \cup {Some(JsonStringify([NoPeers EXCEPT ![url] =
                Some([DEFAULT_PEER_INFO EXCEPT !.peerUrl = url, !.trust = "TRUSTED"])])) :
            url \in PeerUrls}

InitPeer ==
    /\ docs = {}
    /\ isClosed = FALSE
    /\ now = MaxNow
    /\ last = [op |-> "new", result |-> "none", replaced |-> FALSE]
    /\ onWrite = <<>>
    /\ onChange = 0
    /\ ingested = {}
    /\ docs2 = {}
    /\ ingested2 = {}
    /\ config = NoConfig
    /\ driver = BegunDriver
    /\ peer \in {PeerOn([EmptyKvStore EXCEPT !.peers = stored]) :
                    stored \in StoredPeers}
    /\ calls = NoCalls

\* a call of a method of the peer: last is the method and what it threw
PeerCalled(op) ==
    /\ last' = [op |-> op, result |-> peer'.result, replaced |-> FALSE]
    /\ UNCHANGED <<docs, isClosed, now, onWrite, onChange>>
    /\ UNCHANGED <<ingested, docs2, ingested2, config, driver, calls>>

Hatch ==
    /\ Len(peer.hatching) < MaxHatching
    /\ peer' = hatch(peer)
    /\ PeerCalled("hatch")

HatchResume ==
    /\ peer.hatching # <<>>
    /\ peer' = hatchResume(peer)
    /\ UNCHANGED <<storeVars, ingested, docs2, ingested2, config, driver, calls>>

AddWorkspace(workspace) ==
    /\ peer' = addWorkspace(peer, workspace)
    /\ Len(peer'.kvStore.pending) <= MaxPendingSets
    /\ PeerCalled("addWorkspace")

ReadPeer ==
    /\ peer' = readPeer(peer)
    /\ PeerCalled("getPeerInfo")

RemoveAndCloseWorkspace(workspace) ==
    /\ peer.removing < MaxRemoving
    /\ peer' = removeAndCloseWorkspace(peer, workspace)
    /\ PeerCalled("removeAndCloseWorkspace")

RemoveResume ==
    /\ peer.removing > 0
    /\ peer' = removeResume(peer)
    /\ Len(peer'.kvStore.pending) <= MaxPendingSets
    /\ UNCHANGED <<storeVars, ingested, docs2, ingested2, config, driver, calls>>

AddPeer(peerUrl) ==
    /\ peer' = addPeer(peer, peerUrl)
    /\ Len(peer'.kvStore.pending) <= MaxPendingSets
    /\ PeerCalled("addPeer")

UpdatePeer(peerUrl, partialInfo) ==
    /\ peer' = updatePeer(peer, peerUrl, partialInfo)
    /\ Len(peer'.kvStore.pending) <= MaxPendingSets
    /\ PeerCalled("updatePeer")

RemovePeer(peerUrl) ==
    /\ peer' = removePeer(peer, peerUrl)
    /\ Len(peer'.kvStore.pending) <= MaxPendingSets
    /\ PeerCalled("removePeer")

PeerClose ==
    /\ peer' = peerClose(peer)
    /\ PeerCalled("close")

\* the kvStore carries out the oldest set() it was given
KvStoreSetLands ==
    /\ peer.kvStore.pending # <<>>
    /\ peer' = [peer EXCEPT !.kvStore = kvStoreLands(@)]
    /\ UNCHANGED <<storeVars, ingested, docs2, ingested2, config, driver, calls>>

NextPeer ==
    \/ Hatch
    \/ HatchResume
    \/ \E workspace \in PeerWorkspaces : AddWorkspace(workspace)
    \/ ReadPeer
    \/ \E workspace \in PeerWorkspaces : RemoveAndCloseWorkspace(workspace)
    \/ RemoveResume
    \/ \E peerUrl \in PeerUrls : AddPeer(peerUrl)
    \/ \E peerUrl \in PeerUrls, partialInfo \in PartialInfos :
          UpdatePeer(peerUrl, partialInfo)
    \/ \E peerUrl \in PeerUrls : RemovePeer(peerUrl)
    \/ PeerClose
    \/ KvStoreSetLands

SpecPeer == InitPeer /\ [][NextPeer]_vars

----------------------------------------------------------------------------
(* substorage-as-second-class.ts: MemoryDriver, the driver of MegaStorage *)

\* results.slice(n)
SliceFrom(seq, n) == SubSeq(seq, n + 1, Len(seq))

\* the loop of MemoryDriver.documentQuery over limitBytes
RECURSIVE memoryDriverLimitBytes(_, _, _, _)
memoryDriverLimitBytes(results, limitBytes, ii, b) ==
    IF ii > Len(results) THEN results
    ELSE LET b2 == b + Len(results[ii].content)
         IN IF b2 > limitBytes THEN SliceFrom(results, ii - 1)
            ELSE memoryDriverLimitBytes(results, limitBytes, ii + 1, b2)

memoryDriverDocumentQuery(D, query) ==
    IF query.limit = Some(0) \/ query.limitBytes = Some(0) THEN <<>>
    ELSE
      LET docsThisPath(path) ==
              LET pathSlots == {d \in D : d.path = path}
                  kept == IF query.isHead THEN {SortHistory(pathSlots)[1]}
                          ELSE pathSlots
              IN {d \in kept : queryMatchesDoc(query, d)}
          sorted == SortHistory(UNION {docsThisPath(path) : path \in PathsOf(D)})
          limited == IF query.limit # Undefined
                     THEN SliceFrom(sorted, query.limit[1])
                     ELSE sorted
      IN IF query.limitBytes # Undefined
         THEN memoryDriverLimitBytes(limited, query.limitBytes[1], 1, 0)
         ELSE limited

----------------------------------------------------------------------------
(* storageMinimal.ts: StorageMinimal.documents.  Its query helpers       *)
(* (storage/query.ts) are collaborators of the class.                      *)

\* Buffer.byteLength(content, 'utf-8'); a surrogate is half of a 4-byte pair
RECURSIVE Utf8ByteLength(_)
Utf8ByteLength(content) ==
    IF content = <<>> THEN 0
    ELSE (IF Head(content) < 128 THEN 1
          ELSE IF Head(content) < 2048 THEN 2
          ELSE IF Head(content) >= 55296 /\ Head(content) <= 57343 THEN 2
          ELSE 3) + Utf8ByteLength(Tail(content))

\* a Query of StorageMinimal with no selector set
EmptyMinimalQuery ==
    [history |-> Undefined, author |-> Undefined,
     limit |-> Undefined, limitBytes |-> Undefined]

\* cleanUpQuery of storage/query.ts: history defaults to "latest"
cleanUpMinimalQuery(q) ==
    IF q.history = Undefined THEN [q EXCEPT !.history = Some("latest")] ELSE q

\* queryMatchesDoc of storage/query.ts: unset selectors do not constrain
minimalQueryMatchesDoc(query, doc) ==
    query.author = Undefined \/ doc.author = query.author[1]

\* results.sort(sortPathAscAuthorAsc)
RECURSIVE SortPathAscAuthorAsc(_)
SortPathAscAuthorAsc(S) ==
    IF S = {} THEN <<>>
    ELSE LET first == CHOOSE d \in S : \A e \in S :
                         \/ StrLt(d.path, e.path)
                         \/ d.path = e.path /\ StrLe(d.author, e.author)
         IN <<first>> \o SortPathAscAuthorAsc(S \ {first})

\* a limitBytes loop that would keep an empty document reached at the limit
RECURSIVE minimalLimitBytesKeepingEmpty(_, _, _, _)
minimalLimitBytesKeepingEmpty(results, limitBytes, ii, bytes) ==
    IF ii > Len(results) THEN results
    ELSE LET len == Utf8ByteLength(results[ii].content)
             bytes2 == bytes + len
         IN IF bytes2 > limitBytes
            THEN SubSeq(results, 1, ii - 1)
            ELSE minimalLimitBytesKeepingEmpty(results, limitBytes, ii + 1, bytes2)

\* the loop of StorageMinimal.documents over limitBytes
RECURSIVE minimalLimitBytes(_, _, _, _)
minimalLimitBytes(results, limitBytes, ii, bytes) ==
    IF ii > Len(results) THEN results
    ELSE LET len == Utf8ByteLength(results[ii].content)
             bytes2 == bytes + len
         IN IF bytes2 > limitBytes \/ (bytes2 = limitBytes /\ len = 0)
            THEN SubSeq(results, 1, ii - 1)
            ELSE minimalLimitBytes(results, limitBytes, ii + 1, bytes2)

\* StorageMinimal.documents(q) on an open store holding D at clock value nowv
storageMinimalDocuments(D, q, nowv) ==
    LET query == cleanUpMinimalQuery(q) IN
    IF query.limit = Some(0) \/ query.limitBytes = Some(0) THEN <<>>
    ELSE
      LET docsThisPath(path) ==
              LET pathSlots == {d \in D : d.path = path}
                  kept == IF query.history = Some("latest")
                          THEN {SortHistory(pathSlots)[1]}
                          ELSE pathSlots
              IN {d \in kept : /\ minimalQueryMatchesDoc(query, d)
                                /\ (d.deleteAfter = Null \/ nowv <= d.deleteAfter[1])}
          sorted == SortPathAscAuthorAsc(
                        UNION {docsThisPath(path) : path \in PathsOf(D)})
          limited == IF query.limit # Undefined THEN Slice(sorted, query.limit[1])
                     ELSE sorted
      IN IF query.limitBytes # Undefined
         THEN minimalLimitBytes(limited, query.limitBytes[1], 1, 0)
         ELSE limited

----------------------------------------------------------------------------
(* Queries on stores filled as the driver test fills them: one call of a  *)
(* query operation on each store content.  last is the call: the           *)
(* operation, its query and the list it returned.                          *)

MaxQueryDocs == 4
MaxLimit == 2
MaxLimitBytes == 3

\* "", "x", "é" (one code unit, two bytes), "xx"
QueryContents == {<<>>, <<120>>, <<233>>, <<120, 120>>}
ContentOfSize(n) == [i \in 1..n |-> 120]
\* the content sizes of the documents of the driver test, in history order
\* (d0, d1, d2, d4, d3, d5), and the first five of them
TestSizes == <<0, 1, 2, 0, 3, 5>>
QueryContentSeqs ==
    UNION {[1..k -> QueryContents] : k \in 0..MaxQueryDocs}
      \cup {[i \in 1..k |-> ContentOfSize(TestSizes[i])] : k \in {5, 6}}

\* the i-th document in history order: paths "/a", "/a", "/b", "/b", ...,
\* each path with a newer document by @a and an older one by @b
QueryDoc(i, content) ==
    MakeDoc(FORMAT, WORKSPACE, <<47, 96 + ((i + 1) \div 2)>>, content,
            IF i % 2 = 1 THEN <<64, 97>> ELSE <<64, 98>>,
            IF i % 2 = 1 THEN FirstTimestamp + 1 ELSE FirstTimestamp, Null)

QueryStore(sizes) == {QueryDoc(i, sizes[i]) : i \in 1..Len(sizes)}

Limits == {Undefined} \cup {Some(n) : n \in 0..MaxLimit}
LimitsBytes == {Undefined} \cup {Some(n) : n \in 0..MaxLimitBytes}
LimitQueries ==
    {[EmptyQuery EXCEPT !.limit = l, !.limitBytes = b] :
        l \in Limits, b \in LimitsBytes}
MinimalLimitQueries ==
    {[EmptyMinimalQuery EXCEPT !.history = h, !.limit = l, !.limitBytes = b] :
        h \in {Undefined, Some("all")}, l \in Limits, b \in LimitsBytes}

\* one path held by both authors, as upserted into a driver: every choice
\* of the two timestamps and contents; on the ephemeral path every choice of
\* a deleteAfter that has passed at MaxNow and of one that has not
VersionTimestamps == {FirstTimestamp - 1, FirstTimestamp}
VersionsOf(path, author) ==
    {MakeDoc(FORMAT, WORKSPACE, path, content, author, timestamp, deleteAfter) :
        content \in Contents, timestamp \in VersionTimestamps,
        deleteAfter \in IF IsEphemeralPath(path)
                        THEN {Some(MaxNow - 1), Some(MaxNow)} ELSE {Null}}
VersionStores ==
    UNION {{{a, b} : a \in VersionsOf(path, <<64, 97>>),
                     b \in VersionsOf(path, <<64, 98>>)} : path \in Paths}

\* queries with selectors, over all versions and over the heads only
SelectorQueries ==
    {[EmptyQuery EXCEPT !.isHead = h, !.author = a, !.contentSize_gt = g] :
        h \in BOOLEAN, a \in {Undefined} \cup {Some(x) : x \in Authors},
        g \in {Undefined, Some(0)}}
MinimalSelectorQueries ==
    {[EmptyMinimalQuery EXCEPT !.history = h, !.author = a] :
        h \in {Undefined, Some("all")},
        a \in {Undefined} \cup {Some(x) : x \in Authors}}
DriverQueries == LimitQueries \cup SelectorQueries
MinimalQueries == MinimalLimitQueries \cup MinimalSelectorQueries

InitQuery ==
    /\ docs \in {QueryStore(sizes) : sizes \in QueryContentSeqs} \cup VersionStores
    /\ isClosed = FALSE
    /\ now = MaxNow
    /\ last = [op |-> "new", query |-> EmptyQuery, result |-> <<>>]
    /\ onWrite = <<>>
    /\ onChange = 0
    /\ ingested = {}
    /\ docs2 = {}
    /\ ingested2 = {}
    /\ config = NoConfig
    /\ driver = BegunDriver
    /\ peer = NewPeer
    /\ calls = NoCalls

\* a query operation returns result; it changes nothing in the store
Returns(op, query, result) ==
    /\ last' = [op |-> op, query |-> query, result |-> result]
    /\ UNCHANGED <<docs, isClosed, now, onWrite, onChange, historyVars>>

DocumentQuery(query) ==
    /\ last.op = "new"
    /\ Returns("DriverMemory.documentQuery", query,
               documentQuery(docs, query, Some(now)))

PathQuery(query) ==
    /\ last.op = "new"
    /\ Returns("DriverMemory.pathQuery", query,
               pathQuery(docs, query, Some(now)))

MemoryDriverDocumentQuery(query) ==
    /\ last.op = "new"
    /\ Returns("MemoryDriver.documentQuery", query,
               memoryDriverDocumentQuery(docs, query))

StorageMinimalDocuments(query) ==
    /\ last.op = "new"
    /\ Returns("StorageMinimal.documents", query,
               storageMinimalDocuments(docs, query, now))

\* DriverSqlite.documentQuery(query, now) on the rows D of the docs table:
\* SELECT * FROM docs ORDER BY path ASC, timestamp DESC, signature DESC,
\* with its WHERE and LIMIT clauses commented out
driverSqliteDocumentQuery(D, query, nowv) ==
    SortHistory(D)

DriverSqliteDocumentQuery(query) ==
    /\ last.op = "new"
    /\ Returns("DriverSqlite.documentQuery", query,
               driverSqliteDocumentQuery(docs, query, now))

NextQuery ==
    \/ \E query \in DriverQueries : DriverSqliteDocumentQuery(query)
    \/ \E query \in DriverQueries : DocumentQuery(query)
    \/ \E query \in DriverQueries : PathQuery(query)
    \/ \E query \in DriverQueries : MemoryDriverDocumentQuery(query)
    \/ \E query \in MinimalQueries : StorageMinimalDocuments(query)

SpecQuery == InitQuery /\ [][NextQuery]_vars

----------------------------------------------------------------------------
(* The expiry sweeps of the two memory stores, on stores filled by upserts *)

\* documentIsExpired(doc, now) of storage/query.ts
documentIsExpired(doc, nowv) ==
    doc.deleteAfter # Null /\ doc.deleteAfter[1] < nowv

\* StorageMinimal._filterDocs(shouldKeep) on the documents D, shouldKeep
\* given as a function on D: the documents kept, and the paths _docs still
\* has a key for
filterDocs(D, shouldKeep) ==
    LET slots(path) == {d \in D : d.path = path /\ shouldKeep[d]}
    IN [docs |-> UNION {slots(path) : path \in PathsOf(D)},
        paths |-> {path \in PathsOf(D) : Cardinality(slots(path)) # 0}]

\* StorageMinimal.discardExpiredDocuments() at clock value nowv
discardExpiredDocuments(D, nowv) ==
    filterDocs(D, [doc \in D |-> ~documentIsExpired(doc, nowv)])

\* DriverMemory.removeExpiredDocs(now): its body is empty
removeExpiredDocs(D, nowv) ==
    [docs |-> D, paths |-> PathsOf(D)]

InitSweep ==
    /\ docs \in VersionStores
    /\ isClosed = FALSE
    /\ now = MaxNow
    /\ last = [op |-> "new", result |-> "none", replaced |-> FALSE]
    /\ onWrite = <<>>
    /\ onChange = 0
    /\ ingested = {}
    /\ docs2 = {}
    /\ ingested2 = {}
    /\ config = NoConfig
    /\ driver = BegunDriver
    /\ peer = NewPeer
    /\ calls = NoCalls

\* a sweep leaves swept.docs in the store, under the keys swept.paths
Sweeps(op, swept) ==
    /\ docs' = swept.docs
    /\ last' = [op |-> op, result |-> "none", replaced |-> (docs # swept.docs),
                paths |-> swept.paths]
    /\ UNCHANGED <<isClosed, now, onWrite, onChange, historyVars>>

RemoveExpiredDocs ==
    /\ last.op = "new"
    /\ Sweeps("removeExpiredDocs", removeExpiredDocs(docs, now))

DiscardExpiredDocuments ==
    /\ last.op = "new"
    /\ Sweeps("discardExpiredDocuments", discardExpiredDocuments(docs, now))

\* a forgetDocuments that would check the history mode before the limits
forgetDocumentsHistoryFirst(D, q) ==
    LET query == cleanUpMinimalQuery(q)
        kept == [docs |-> D, paths |-> PathsOf(D)]
    IN IF query.history # Some("all")
       THEN [result |-> "ValidationError", swept |-> kept]
       ELSE IF query.limit = Some(0) \/ query.limitBytes = Some(0)
       THEN [result |-> "returned", swept |-> kept]
       ELSE [result |-> "returned",
             swept |-> filterDocs(D, [doc \in D |-> ~minimalQueryMatchesDoc(query, doc)])]

\* StorageMinimal.forgetDocuments(q) on the documents D
forgetDocuments(D, q) ==
    LET query == cleanUpMinimalQuery(q)
        kept == [docs |-> D, paths |-> PathsOf(D)]
    IN IF query.limit = Some(0) \/ query.limitBytes = Some(0)
       THEN [result |-> "returned", swept |-> kept]
       ELSE IF query.history # Some("all")
       THEN [result |-> "ValidationError", swept |-> kept]
       ELSE [result |-> "returned",
             swept |-> filterDocs(D, [doc \in D |-> ~minimalQueryMatchesDoc(query, doc)])]

ForgetDocuments(q) ==
    /\ last.op = "new"
    /\ docs' = forgetDocuments(docs, q).swept.docs
    /\ last' = [op |-> "forgetDocuments", result |-> forgetDocuments(docs, q).result,
                replaced |-> (docs # forgetDocuments(docs, q).swept.docs),
                paths |-> forgetDocuments(docs, q).swept.paths, query |-> q]
    /\ UNCHANGED <<isClosed, now, onWrite, onChange, historyVars>>

NextSweep ==
    \/ RemoveExpiredDocs
    \/ DiscardExpiredDocuments
    \/ \E q \in MinimalQueries : ForgetDocuments(q)

SpecSweep == InitSweep /\ [][NextSweep]_vars

----------------------------------------------------------------------------
(* driverSqlite.ts: opening the file of a workspace.  docs and config are  *)
(* the rows of the tables docs and config of the file; driver counts the   *)
(* calls of begin and close.                                               *)

MaxBegins == 2

\* the key "schemaVersion" and the contents "1" and "2"
SchemaVersionKey == <<115, 99, 104, 101, 109, 97, 86, 101, 114, 115, 105, 111, 110>>
SqliteConfigKeys == {SchemaVersionKey, <<107>>}
SqliteConfigValues == {<<49>>, <<50>>}

\* DELETE FROM docs WHERE deleteAfter NOT NULL AND deleteAfter < :now
removeExpiredDocuments(D, nowv) ==
    {d \in D : ~(d.deleteAfter # Null /\ d.deleteAfter[1] < nowv)}

\* a begin that would write its schema version over any other
driverSqliteBeginAnyVersion(cfg, D, nowv) ==
    [threw |-> FALSE,
     config |-> [cfg EXCEPT ![SchemaVersionKey] = Some(<<49>>)],
     docs |-> removeExpiredDocuments(D, nowv)]

\* DriverSqlite.begin on a file with the config rows cfg and the docs rows
\* D, at wall-clock time nowv
driverSqliteBegin(cfg, D, nowv) ==
    LET schemaVersion == cfg[SchemaVersionKey]
    IN IF schemaVersion = Undefined
       THEN [threw |-> FALSE,
             config |-> [cfg EXCEPT ![SchemaVersionKey] = Some(<<49>>)],
             docs |-> removeExpiredDocuments(D, nowv)]
       ELSE IF schemaVersion # Some(<<49>>)
       THEN [threw |-> TRUE, config |-> cfg, docs |-> D]
       ELSE [threw |-> FALSE, config |-> cfg,
             docs |-> removeExpiredDocuments(D, nowv)]

\* a file written earlier: documents of one path by both authors, and any
\* config rows
InitSqlite ==
    /\ docs \in VersionStores
    /\ isClosed = FALSE
    /\ now = MaxNow
    /\ last = [op |-> "new", result |-> "none", replaced |-> FALSE]
    /\ onWrite = <<>>
    /\ onChange = 0
    /\ ingested = {}
    /\ docs2 = {}
    /\ ingested2 = {}
    /\ config \in [SqliteConfigKeys ->
                     {Undefined} \cup {Some(v) : v \in SqliteConfigValues}]
    /\ driver = FreshDriver
    /\ peer = NewPeer
    /\ calls = NoCalls

DriverSqliteBegin ==
    /\ driver.begin = driver.close
    /\ driver.begin < MaxBegins
    /\ driver' = [driver EXCEPT !.begin = @ + 1]
    /\ docs' = driverSqliteBegin(config, docs, now).docs
    /\ config' = driverSqliteBegin(config, docs, now).config
    /\ last' = [op |-> "DriverSqlite.begin",
                result |-> IF driverSqliteBegin(config, docs, now).threw
                           THEN "Error" ELSE "returned",
                replaced |-> (docs # driverSqliteBegin(config, docs, now).docs),
                wrote |-> (config # driverSqliteBegin(config, docs, now).config)]
    /\ UNCHANGED <<isClosed, now, onWrite, onChange>>
    /\ UNCHANGED <<ingested, docs2, ingested2, peer, calls>>

\* DriverSqlite.setConfig(key, content) on the open file
DriverSqliteSetConfig(key, content) ==
    /\ driver.begin > driver.close
    /\ config' = [config EXCEPT ![key] = Some(content)]
    /\ last' = [op |-> "DriverSqlite.setConfig", result |-> "returned",
                replaced |-> FALSE]
    /\ UNCHANGED <<docs, isClosed, now, onWrite, onChange>>
    /\ UNCHANGED <<ingested, docs2, ingested2, driver, peer, calls>>

\* DriverSqlite.close(): this.db.close()
DriverSqliteClose ==
    /\ driver.begin > driver.close
    /\ driver' = [driver EXCEPT !.close = @ + 1]
    /\ last' = [op |-> "DriverSqlite.close", result |-> "returned",
                replaced |-> FALSE]
    /\ UNCHANGED <<docs, isClosed, now, onWrite, onChange>>
    /\ UNCHANGED <<ingested, docs2, ingested2, config, peer, calls>>

\* DriverSqlite.deleteConfig(key): DELETE FROM config WHERE key = :key
DriverSqliteDeleteConfig(key) ==
    /\ driver.begin > driver.close
    /\ config' = [config EXCEPT ![key] = Undefined]
    /\ last' = [op |-> "DriverSqlite.deleteConfig", result |-> "returned",
                replaced |-> FALSE]
    /\ UNCHANGED <<docs, isClosed, now, onWrite, onChange>>
    /\ UNCHANGED <<ingested, docs2, ingested2, driver, peer, calls>>

\* DriverSqlite.clearConfig(): DELETE FROM config
DriverSqliteClearConfig ==
    /\ driver.begin > driver.close
    /\ config' = [key \in DOMAIN config |-> Undefined]
    /\ last' = [op |-> "DriverSqlite.clearConfig", result |-> "returned",
                replaced |-> FALSE]
    /\ UNCHANGED <<docs, isClosed, now, onWrite, onChange>>
    /\ UNCHANGED <<ingested, docs2, ingested2, driver, peer, calls>>

\* the documents passed to upsertDocument: versions by one author, of the
\* ordinary path and of the ephemeral path
SqliteUpsertDocs ==
    {d \in SignedDocs : d.author = <<64, 97>> /\ d.content = <<>>}

\* DriverSqlite.upsertDocument(doc): INSERT OR REPLACE INTO docs, whose
\* primary key is (path, author)
DriverSqliteUpsertDocument(doc) ==
    /\ driver.begin > driver.close
    /\ docs' = upsertDocument(docs, doc)
    /\ last' = [op |-> "DriverSqlite.upsertDocument", result |-> "returned",
                replaced |-> (\E d \in docs : SameSlot(d, doc))]
    /\ UNCHANGED <<isClosed, now, onWrite, onChange>>
    /\ UNCHANGED <<ingested, docs2, ingested2, config, driver, peer, calls>>

\* the times passed to removeExpiredDocuments
SweepTimes == {MaxNow, MaxNow + 1}

\* DriverSqlite.removeExpiredDocuments(now), called by itself
DriverSqliteRemoveExpiredDocuments(nowv) ==
    /\ driver.begin > driver.close
    /\ docs' = removeExpiredDocuments(docs, nowv)
    /\ last' = [op |-> "DriverSqlite.removeExpiredDocuments", result |-> "returned",
                replaced |-> (docs # removeExpiredDocuments(docs, nowv))]
    /\ UNCHANGED <<isClosed, now, onWrite, onChange>>
    /\ UNCHANGED <<ingested, docs2, ingested2, config, driver, peer, calls>>

NextSqlite ==
    \/ DriverSqliteBegin
    \/ \E key \in SqliteConfigKeys, content \in SqliteConfigValues :
          DriverSqliteSetConfig(key, content)
    \/ \E key \in SqliteConfigKeys : DriverSqliteDeleteConfig(key)
    \/ DriverSqliteClearConfig
    \/ \E doc \in SqliteUpsertDocs : DriverSqliteUpsertDocument(doc)
    \/ \E nowv \in SweepTimes : DriverSqliteRemoveExpiredDocuments(nowv)
    \/ DriverSqliteClose

SpecSqlite == InitSqlite /\ [][NextSqlite]_vars

----------------------------------------------------------------------------
(* Storage3ToAsync: a synchronous storage, here the store with a config   *)
(* beside it, behind a wrapper whose methods return promises.  An action   *)
(* is one call of the wrapper from its sleep on; last is the call and the  *)
(* promise it returned.                                                    *)

\* getConfig(key): this._config[key]
getConfig(key) == IF key \in DOMAIN config THEN config[key] ELSE Undefined

\* the promise of an async method whose body returns or throws r
Promise(r) ==
    IF r.threw THEN [state |-> "rejected", value |-> <<"StorageIsClosedError">>]
    ELSE [state |-> "resolved", value |-> r.value]

storage3ToAsyncGetConfig(key) == Promise(Returned(getConfig(key)))
storage3ToAsyncGetDocument(path) == Promise(getDocument(path))
\* return this._storage.getConfig(path)
storage3ToAsyncGetContent(path) == Promise(Returned(getConfig(path)))

\* a storage that holds documents at "/a" by both authors, or none
InitAsync ==
    /\ docs \in {{}} \cup {D \in VersionStores : \A d \in D : ~IsEphemeralPath(d.path)}
    /\ isClosed = FALSE
    /\ now = MaxNow
    /\ last = [op |-> "new", result |-> "none", replaced |-> FALSE]
    /\ onWrite = <<>>
    /\ onChange = 0
    /\ ingested = {}
    /\ docs2 = {}
    /\ ingested2 = {}
    /\ config = NoConfig
    /\ driver = BegunDriver
    /\ peer = NewPeer
    /\ calls = NoCalls

\* a call of the wrapper that leaves the storage as it is
Resolves(op, arg, promise) ==
    /\ last' = [op |-> op, arg |-> arg, result |-> promise]
    /\ UNCHANGED <<docs, isClosed, now, onWrite, onChange, historyVars>>

AsyncGetConfig(key) ==
    /\ key \in ConfigKeys
    /\ Resolves("getConfig", key, storage3ToAsyncGetConfig(key))

AsyncGetDocument(path) ==
    /\ path \in Paths
    /\ Resolves("getDocument", path, storage3ToAsyncGetDocument(path))

AsyncGetContent(path) ==
    /\ path \in Paths
    /\ Resolves("getContent", path, storage3ToAsyncGetContent(path))

\* isClosed() stays synchronous
AsyncIsClosed ==
    /\ isClosed \in BOOLEAN
    /\ Resolves("isClosed", <<>>, isClosed)

AsyncSetConfig(key, content) ==
    /\ config' = [config EXCEPT ![key] = Some(content)]
    /\ last' = [op |-> "setConfig", arg |-> key,
                result |-> [state |-> "resolved", value |-> Undefined]]
    /\ UNCHANGED <<docs, isClosed, now, onWrite, onChange>>
    /\ UNCHANGED <<ingested, docs2, ingested2, driver, peer, calls>>

AsyncDeleteConfig(key) ==
    /\ config' = [config EXCEPT ![key] = Undefined]
    /\ last' = [op |-> "deleteConfig", arg |-> key,
                result |-> [state |-> "resolved", value |-> Undefined]]
    /\ UNCHANGED <<docs, isClosed, now, onWrite, onChange>>
    /\ UNCHANGED <<ingested, docs2, ingested2, driver, peer, calls>>

\* deleteAllConfig(): this._config = {}
AsyncDeleteAllConfig ==
    /\ config' = [key \in DOMAIN config |-> Undefined]
    /\ last' = [op |-> "deleteAllConfig", arg |-> <<>>,
                result |-> [state |-> "resolved", value |-> Undefined]]
    /\ UNCHANGED <<docs, isClosed, now, onWrite, onChange>>
    /\ UNCHANGED <<ingested, docs2, ingested2, driver, peer, calls>>

\* close() of the wrapped storage, which closes its driver
AsyncClose ==
    /\ driver.close < MaxCloses
    /\ isClosed' = TRUE
    /\ driver' = [driver EXCEPT !.close = @ + 1]
    /\ last' = [op |-> "close", arg |-> <<>>,
                result |-> [state |-> "resolved", value |-> Undefined]]
    /\ UNCHANGED <<docs, now, onWrite, onChange>>
    /\ UNCHANGED <<ingested, docs2, ingested2, config, peer, calls>>

\* closeAndForgetWorkspace() of the wrapped storage: it is closed and its
\* documents are dropped
AsyncCloseAndForgetWorkspace ==
    /\ driver.close < MaxCloses
    /\ isClosed' = TRUE
    /\ docs' = {}
    /\ driver' = [driver EXCEPT !.close = @ + 1]
    /\ last' = [op |-> "closeAndForgetWorkspace", arg |-> <<>>,
                result |-> [state |-> "resolved", value |-> Undefined]]
    /\ UNCHANGED <<now, onWrite, onChange>>
    /\ UNCHANGED <<ingested, docs2, ingested2, config, peer, calls>>

\* the documents passed to _upsertDocument: versions by one author, of the
\* ordinary path and of the ephemeral path
AsyncUpsertDocs ==
    {d \in SignedDocs : /\ d.author = <<64, 97>>
                        /\ d.content = <<>>
                        /\ d.timestamp = FirstTimestamp}

\* a call of the wrapper whose method of the wrapped storage asserts that the
\* storage is not closed, and then returns or throws result and leaves it the
\* documents D
Changes(op, arg, result, D) ==
    /\ docs' = IF isClosed THEN docs ELSE D
    /\ last' = [op |-> op, arg |-> arg,
                result |-> IF isClosed THEN Promise(StorageIsClosedError)
                           ELSE result]
    /\ UNCHANGED <<isClosed, now, onWrite, onChange>>
    /\ UNCHANGED <<ingested, docs2, ingested2, config, driver, peer>>

\* _upsertDocument(doc): slots[doc.author] = doc
AsyncUpsertDocument(doc) ==
    /\ doc \in AsyncUpsertDocs
    /\ Changes("_upsertDocument", doc,
               [state |-> "resolved", value |-> Undefined],
               upsertDocument(docs, doc))

\* forgetDocuments(q)
AsyncForgetDocuments(q) ==
    /\ q \in MinimalSelectorQueries
    /\ Changes("forgetDocuments", q,
               IF forgetDocuments(docs, q).result = "ValidationError"
               THEN [state |-> "rejected", value |-> <<"ValidationError">>]
               ELSE [state |-> "resolved", value |-> Undefined],
               forgetDocuments(docs, q).swept.docs)

\* discardExpiredDocuments(), at the clock value of the wrapped storage
AsyncDiscardExpiredDocuments ==
    /\ now \in Clock
    /\ Changes("discardExpiredDocuments", <<>>,
               [state |-> "resolved", value |-> Undefined],
               discardExpiredDocuments(docs, now).docs)

\* set _now(val): this._storage._now = val
AsyncSetNow(val) ==
    /\ val \in Clock
    /\ now' = val
    /\ last' = [op |-> "_now", arg |-> val, result |-> val]
    /\ UNCHANGED <<docs, isClosed, onWrite, onChange, historyVars>>

NextAsync ==
    \/ \E key \in ConfigKeys : AsyncGetConfig(key)
    \/ \E path \in Paths : AsyncGetDocument(path)
    \/ \E path \in Paths : AsyncGetContent(path)
    \/ AsyncIsClosed
    \/ \E key \in ConfigKeys, content \in ConfigValues : AsyncSetConfig(key, content)
    \/ \E key \in ConfigKeys : AsyncDeleteConfig(key)
    \/ AsyncDeleteAllConfig
    \/ \E doc \in AsyncUpsertDocs : AsyncUpsertDocument(doc) /\ UNCHANGED calls
    \/ \E q \in MinimalSelectorQueries : AsyncForgetDocuments(q) /\ UNCHANGED calls
    \/ AsyncDiscardExpiredDocuments /\ UNCHANGED calls
    \/ \E val \in Clock : AsyncSetNow(val)
    \/ AsyncClose
    \/ AsyncCloseAndForgetWorkspace

SpecAsync == InitAsync /\ [][NextAsync]_vars

----------------------------------------------------------------------------
(* Writes through Storage3ToAsync.  A call sleeps, then runs the method of *)
(* the wrapped synchronous storage.  calls.sleeping holds the calls that   *)
(* sleep, each with the documents the storage held when it was made;       *)
(* calls.completed and calls.events are history: the calls in the order    *)
(* they completed, and the events sent to onWrite.                         *)

MaxAsyncCalls == 3

\* ingestDocument of the wrapped storage
storage3IngestDocument(D, doc, isLocal, nowv) ==
    IF \/ doc.format \notin validatorMap
       \/ ~checkDocumentIsValid(doc, nowv)
       \/ doc.workspace # WORKSPACE
    THEN Outcome("ValidationError", D, <<doc>>, <<>>)
    ELSE IF \E P \in D :
              /\ SameSlot(P, doc)
              /\ ~(P.deleteAfter # Null /\ nowv > P.deleteAfter[1])
              /\ \/ doc.timestamp < P.timestamp
                 \/ doc.timestamp = P.timestamp /\ StrLe(doc.signature, P.signature)
    THEN Outcome("Ignored", D, <<doc>>, <<>>)
    ELSE LET D2 == upsertDocument(D, doc)
             isLatest == (<<doc>> = getDocumentOf(D2, doc.path))
         IN Outcome("Accepted", D2, <<doc>>, <<WriteEvent(doc, isLocal, isLatest)>>)

\* set of the wrapped storage: the document is built and signed as
\* Storage2.set builds it, then ingested
storage3IngestBuilt(D, built, nowv) ==
    IF built = <<>> \/ built[1].signature = <<>>
    THEN Outcome("ValidationError", D, built, <<>>)
    ELSE storage3IngestDocument(D, built[1], TRUE, nowv)

storage3Set(D, keypair, docToSet, nowv) ==
    storage3IngestBuilt(D, set(D, keypair, docToSet, nowv).doc, nowv)

\* the write of the wrapped storage that call asks for
WriteOf(D, call, nowv) ==
    IF call.op = "ingestDocument"
    THEN storage3IngestDocument(D, call.arg, FALSE, nowv)
    ELSE storage3Set(D, call.keypair, call.arg, nowv)

\* a wrapper that would suspend between the predecessor read, made when the
\* call was issued, and the upsert
storage3ToAsyncWriteSuspended(D, call, nowv) ==
    LET decided == WriteOf(call.seen, call, nowv)
    IN IF decided.result = "Accepted"
       THEN [decided EXCEPT !.docs = upsertDocument(D, decided.doc[1])]
       ELSE [decided EXCEPT !.docs = D]

\* Storage3ToAsync.ingestDocument and set after the sleep:
\* return this._storage.ingestDocument(...), return this._storage.set(...)
storage3ToAsyncWrite(D, call, nowv) ==
    WriteOf(D, call, nowv)

\* the calls: ingestDocument of the documents of one slot and of documents
\* the storage rejects, and set of new content for that slot
SlotDocs ==
    {d \in SignedDocs : d.path = <<47, 97>> /\ d.author = <<64, 97>>}
      \cup {d \in RejectedDocs : d.path = <<47, 97>>}
AsyncWriteCalls ==
    {[op |-> "ingestDocument", arg |-> d, keypair |-> <<>>] : d \in SlotDocs}
      \cup {[op |-> "set", keypair |-> <<kp>>,
             arg |-> [format |-> FORMAT, path |-> <<47, 97>>, content |-> c,
                      timestamp |-> Undefined, deleteAfter |-> Null]] :
            kp \in {k \in Keypairs : k.address = <<64, 97>> /\ k.secret = "good"},
            c \in Contents}

InitAsyncWrites ==
    /\ docs = {}
    /\ isClosed = FALSE
    /\ now = MaxNow
    /\ last = [op |-> "new", result |-> "none", replaced |-> FALSE]
    /\ onWrite = <<>>
    /\ onChange = 0
    /\ ingested = {}
    /\ docs2 = {}
    /\ ingested2 = {}
    /\ config = NoConfig
    /\ driver = BegunDriver
    /\ peer = NewPeer
    /\ calls = NoCalls

\* the caller issues call: it sleeps
Sleeps(call) ==
    /\ Cardinality(calls.sleeping) + Len(calls.completed) < MaxAsyncCalls
    /\ \A c \in calls.sleeping : c.op # call.op \/ c.arg # call.arg
    /\ calls' = [calls EXCEPT !.sleeping = @ \cup
                    {[op |-> call.op, arg |-> call.arg, keypair |-> call.keypair,
                      seen |-> docs]}]
    /\ UNCHANGED <<storeVars, ingested, docs2, ingested2, config, driver, peer>>

AsyncIngestDocument(call) ==
    /\ call.op = "ingestDocument"
    /\ Sleeps(call)

AsyncSet(call) ==
    /\ call.op = "set"
    /\ Sleeps(call)

\* a sleeping call wakes up and the method of the storage runs, with outcome
Completes(call, outcome) ==
    /\ WithinBound(outcome)
    /\ docs' = outcome.docs
    /\ last' = [op |-> call.op, result |-> outcome.result,
                replaced |-> (docs \ outcome.docs # {})]
    /\ onWrite' = outcome.onWrite
    /\ onChange' = outcome.onChange
    /\ ingested' = ingested \cup
           (IF outcome.result # "ValidationError" THEN {outcome.doc[1]} ELSE {})
    /\ calls' = [sleeping |-> calls.sleeping \ {call},
                 completed |-> Append(calls.completed,
                                 [result |-> outcome.result, doc |-> outcome.doc]),
                 events |-> calls.events \o outcome.onWrite]
    /\ UNCHANGED <<isClosed, now, docs2, ingested2, config, driver, peer>>

AsyncWriteResume(call) ==
    /\ call \in calls.sleeping
    /\ Completes(call, storage3ToAsyncWrite(docs, [call EXCEPT !.keypair =
                   IF call.op = "set" THEN call.keypair[1] ELSE <<>>], now))

\* a call that is neither ingestDocument nor set has completed
DirectCall ==
    /\ Cardinality(calls.sleeping) + Len(calls.completed) < MaxAsyncCalls
    /\ calls' = [calls EXCEPT !.completed =
                    Append(@, [result |-> "direct", doc |-> <<>>])]

NextAsyncWrites ==
    \/ \E call \in AsyncWriteCalls : AsyncIngestDocument(call)
    \/ \E call \in AsyncWriteCalls : AsyncSet(call)
    \/ \E call \in calls.sleeping : AsyncWriteResume(call)
    \/ \E doc \in AsyncUpsertDocs : AsyncUpsertDocument(doc) /\ DirectCall
    \/ \E q \in MinimalSelectorQueries : AsyncForgetDocuments(q) /\ DirectCall
    \/ AsyncDiscardExpiredDocuments /\ DirectCall

SpecAsyncWrites == InitAsyncWrites /\ [][NextAsyncWrites]_vars

----------------------------------------------------------------------------
(* A caller that keeps its docToSet object and passes it to set again.     *)
(* last.given is the object as the caller passed it, last.docToSet the     *)
(* object as the call left it, last.address the author of the keypair.     *)

\* the caller's docToSet object when Storage2.set has returned:
\* docToSet.timestamp = now, when the timestamp was 0 or undefined and the
\* format has a validator
docToSetAfterSet(docToSet, nowv) ==
    IF docToSet.format \notin validatorMap THEN docToSet
    ELSE IF docToSet.timestamp = Some(0) \/ docToSet.timestamp = Undefined
    THEN [docToSet EXCEPT !.timestamp = Some(nowv)]
    ELSE docToSet

SetOf(op, address, docToSet, after, outcome) ==
    /\ WithinBound(outcome)
    /\ docs' = outcome.docs
    /\ last' = [op |-> op, result |-> outcome.result,
                replaced |-> (docs \ outcome.docs # {}),
                given |-> docToSet, docToSet |-> after, address |-> address]
    /\ onWrite' = outcome.onWrite
    /\ onChange' = outcome.onChange
    /\ UNCHANGED <<isClosed, now>>

\* set with a new object that omits the timestamp
SetOmittingTimestamp(keypair, docToSet) ==
    /\ docToSet.timestamp = Undefined
    /\ SetOf("set", keypair.address, docToSet, docToSetAfterSet(docToSet, now),
             set(docs, keypair, docToSet, now))

\* the object of the call before, given new content
Reused(content) == [last.docToSet EXCEPT !.content = content]

\* set with the object of the call before, given new content
SetAgain(keypair, content) ==
    /\ last.op \in {"set", "setAgain"}
    /\ SetOf("setAgain", keypair.address, Reused(content),
             docToSetAfterSet(Reused(content), now),
             set(docs, keypair, Reused(content), now))

NextReuse ==
    \/ \E keypair \in Keypairs, docToSet \in OrdinaryDocsToSet :
          SetOmittingTimestamp(keypair, docToSet) /\ UNCHANGED historyVars
    \/ \E keypair \in Keypairs, content \in Contents :
          SetAgain(keypair, content) /\ UNCHANGED historyVars
    \/ \E doc \in OrdinaryDocs, isLocal \in BOOLEAN :
          IngestDocument(doc, isLocal) /\ UNCHANGED historyVars
    \/ AdvanceClock /\ UNCHANGED historyVars

SpecReuse == Init /\ [][NextReuse]_vars

----------------------------------------------------------------------------
(* The order of the specification, and what the claims speak of *)

\* (a.timestamp, a.signature) <= (b.timestamp, b.signature), timestamps
\* compared as integers and signatures as strings
PairLe(a, b) ==
    \/ a.timestamp < b.timestamp
    \/ a.timestamp = b.timestamp /\ StrLe(a.signature, b.signature)

\* the (timestamp, signature)-maximum of a non-empty set of documents
PairMax(S) == CHOOSE d \in S : \A e \in S : PairLe(e, d)

\* the latest document at path: the maximum of the live ones, or absent
LatestLive(D, path, nowv) ==
    LET live == {d \in D : d.path = path /\ IsLive(d, nowv)}
    IN IF live = {} THEN <<>> ELSE <<PairMax(live)>>

LiveDocs(D, nowv) == {d \in D : IsLive(d, nowv)}

Range(seq) == {seq[i] : i \in 1..Len(seq)}

\* the queries the read operations are probed with
ProbeQueries ==
    {EmptyQuery, [EmptyQuery EXCEPT !.isHead = TRUE]}
      \cup {[EmptyQuery EXCEPT !.path = Some(p)] : p \in Paths}
      \cup {[EmptyQuery EXCEPT !.author = Some(a)] : a \in Authors}

----------------------------------------------------------------------------
(* C1 *)

\* C1: when ingestDocument is given a document that passes validation and the
\* workspace check and whose slot holds a non-expired document P, it returns
\* Ignored and writes nothing exactly when (timestamp, signature) of the
\* document is <= that of P, timestamps compared as integers and signatures
\* as strings; in every other case it upserts the document and returns Accepted.
C1_IngestRule ==
    [][\A doc \in OrdinaryDocs, isLocal \in BOOLEAN :
         (/\ ~isClosed
          /\ PassesChecks(doc, now)
          /\ IngestDocument(doc, isLocal))
         => \A P \in docs :
              (SameSlot(P, doc) /\ IsLive(P, now))
              => IF PairLe(doc, P)
                 THEN last'.result = "Ignored" /\ docs' = docs
                 ELSE last'.result = "Accepted" /\ doc \in docs' /\ P \notin docs']_vars

----------------------------------------------------------------------------
(* C2 *)

\* C2: after any sequence of ingestDocument calls under a fixed clock, every
\* slot holds the (timestamp, signature)-maximum of the documents ingested for
\* it that passed validation and were not expired when ingested, and the
\* store holds nothing else.
C2_SlotHoldsMaximum ==
    /\ docs \subseteq ingested
    /\ \A d \in ingested : PairMax({e \in ingested : SameSlot(e, d)}) \in docs

----------------------------------------------------------------------------
(* C3 *)

\* C3: two initially empty stores with the same validators and the same
\* fixed clock that have ingested the same set of documents, in whatever
\* orders, hold the same set of live documents.
C3_Convergence ==
    ingested = ingested2 => LiveDocs(docs, now) = LiveDocs(docs2, now)

----------------------------------------------------------------------------
(* C4 *)

\* C4: ingesting again the document whose ingestDocument call has just
\* returned Accepted, while the document is still valid, returns Ignored,
\* leaves the stored documents unchanged and publishes no event.
C4_IngestIdempotent ==
    [][\A doc \in EphemeralDocs, isLocal \in BOOLEAN :
         (/\ ~isClosed
          /\ last.op = "ingestDocument" /\ last.result = "Accepted"
          /\ onWrite = <<WriteEvent(doc, onWrite[1].isLocal, onWrite[1].isLatest)>>
          /\ PassesChecks(doc, now)
          /\ IngestDocument(doc, isLocal))
         => last'.result = "Ignored" /\ docs' = docs /\ onWrite' = <<>>]_vars

----------------------------------------------------------------------------
(* C5 *)

\* C5: after any sequence of set, ingestDocument and driver upsertDocument
\* calls the store holds at most one document for each (path, author).
C5_SlotUniqueness ==
    \A d \in docs : \A e \in docs : SameSlot(d, e) => d = e

\* an upsert has replaced the document of one slot while the other is filled
C5_Witness ==
    /\ last.op = "upsertDocument"
    /\ last.replaced
    /\ Cardinality(docs) = Cardinality(Authors)

----------------------------------------------------------------------------
(* C6 *)

\* C6: getDocument(p) returns the (timestamp, signature)-maximum of the
\* documents at p that are not expired at the clock value, and absent only
\* when no document at p is live.
C6_LatestSelection ==
    ~isClosed => \A p \in Paths : getDocument(p).value = LatestLive(docs, p, now)

----------------------------------------------------------------------------
(* C7 *)

\* C7: no result of documents, contents, paths or getDocument includes a
\* document whose deleteAfter is below the clock value, and authors() lists
\* no author whose only stored documents have deleteAfter below it.
C7_ExpiryUnobservable ==
    ~isClosed =>
      /\ \A q \in ProbeQueries :
            /\ \A d \in Range(documents(q).value) : ~IsExpired(d, now)
            /\ Len(contents(q).value) = Len(documents(q).value)
            /\ \A p \in Range(paths(q).value) :
                  \E d \in docs : d.path = p /\ ~IsExpired(d, now)
      /\ \A p \in Paths : \A d \in Range(getDocument(p).value) : ~IsExpired(d, now)
      /\ \A a \in Range(authors.value) :
            \E d \in docs : d.author = a /\ ~IsExpired(d, now)

----------------------------------------------------------------------------
(* C8 *)

\* C8: after a set of a document with deleteAfter D is Accepted and while it
\* is the only document at its path, getDocument(path) returns it at every
\* clock value now <= D and absent at every clock value now > D, and
\* authors() contains its author while now <= D.
C8_EphemeralVisibleWhileLive ==
    (/\ ~isClosed
     /\ last.op = "set" /\ last.result = "Accepted" /\ Len(onWrite) = 1)
    => \A doc \in docs :
         (/\ doc = onWrite[1].document
          /\ doc.deleteAfter # Null
          /\ \A e \in docs : e.path = doc.path => e = doc)
         => IF now <= doc.deleteAfter[1]
            THEN /\ getDocument(doc.path).value = <<doc>>
                 /\ doc.author \in Range(authors.value)
            ELSE getDocument(doc.path).value = <<>>

----------------------------------------------------------------------------
(* C9 *)

\* every read operation fails with the closed error, the last write call
\* failed with it, and nothing was published
ClosedStoreFails ==
    /\ authors = StorageIsClosedError
    /\ \A q \in ProbeQueries :
          /\ paths(q) = StorageIsClosedError
          /\ documents(q) = StorageIsClosedError
          /\ contents(q) = StorageIsClosedError
    /\ \A p \in Paths :
          /\ getDocument(p) = StorageIsClosedError
          /\ getContent(p) = StorageIsClosedError
    /\ last.op \in {"ingestDocument", "set"} => last.result = "StorageIsClosedError"
    /\ onWrite = <<>>
    /\ onChange = 0

\* C9: once close() has been called isClosed() stays true, every call of
\* authors, paths, documents, contents, getDocument, getContent,
\* ingestDocument and set fails with the closed error, no event is
\* published and no stored document changes.
C9_ClosedStoreFails ==
    [][/\ isClosed' => ClosedStoreFails'
       /\ isClosed => isClosed' /\ docs' = docs]_vars

\* an ingestDocument call on a closed store that holds a document
C9_Witness ==
    /\ isClosed
    /\ docs # {}
    /\ last.op = "ingestDocument"
    /\ last.result = "StorageIsClosedError"

----------------------------------------------------------------------------
(* C10 *)

\* C10: an ingestDocument call that returns Accepted publishes exactly one
\* DOCUMENT_WRITE event, carrying the ingested document and the caller's
\* isLocal flag, by the time it returns; a call that returns Ignored or a
\* ValidationError publishes none; a set call publishes one event, with
\* isLocal = true, exactly when it returns Accepted.
C10_WriteEvents ==
    [][/\ \A doc \in OrdinaryDocs, isLocal \in BOOLEAN :
            (/\ ~isClosed
             /\ last'.op = "ingestDocument"
             /\ IngestDocument(doc, isLocal))
            => IF last'.result = "Accepted"
               THEN /\ Len(onWrite') = 1
                    /\ onWrite'[1].kind = "DOCUMENT_WRITE"
                    /\ onWrite'[1].document = doc
                    /\ onWrite'[1].isLocal = isLocal
               ELSE /\ last'.result \in {"Ignored", "ValidationError"}
                    /\ onWrite' = <<>>
       /\ (~isClosed /\ last'.op = "set")
            => IF last'.result = "Accepted"
               THEN /\ Len(onWrite') = 1
                    /\ onWrite'[1].kind = "DOCUMENT_WRITE"
                    /\ onWrite'[1].isLocal = TRUE
               ELSE /\ last'.result \in {"Ignored", "ValidationError"}
                    /\ onWrite' = <<>>]_vars

\* a remote document has been accepted and its event published
C10_Witness ==
    /\ last.op = "ingestDocument"
    /\ last.result = "Accepted"
    /\ Len(onWrite) = 1
    /\ onWrite[1].isLocal = FALSE
    /\ onWrite[1].document \in docs

----------------------------------------------------------------------------
(* C11 *)

\* C11: the isLatest flag of the write event of an accepted ingestDocument
\* call is true exactly when, right after the upsert, the ingested document
\* is the (timestamp, signature)-maximum of the live documents at its path;
\* in particular it is true for an ephemeral document that is alone at its path.
C11_IsLatestFlag ==
    [][\A doc \in EphemeralDocs, isLocal \in BOOLEAN :
         (/\ ~isClosed
          /\ IngestDocument(doc, isLocal)
          /\ last'.op = "ingestDocument" /\ last'.result = "Accepted")
         => (onWrite'[1].isLatest
               <=> LatestLive(docs', doc.path, now) = <<doc>>)]_vars

----------------------------------------------------------------------------
(* C12 *)

\* the set calls that leave the timestamp to the store (omitted or 0) and
\* that the validator signs
BumpingSet(keypair, docToSet) ==
    /\ ~isClosed
    /\ docToSet.format \in validatorMap
    /\ docToSet.timestamp \in {Undefined, Some(0)}
    /\ keypair.secret = "good"
    /\ Set(keypair, docToSet)

\* C12: bump monotonicity: after a set call on a path that already had a
\* latest document with timestamp T, getDocument(path).timestamp is strictly
\* greater than T (stated for the set calls that let the store choose the
\* timestamp, the case the bump is for).
C12_BumpMonotonicity ==
    [][\A keypair \in Keypairs, docToSet \in OrdinaryDocsToSet :
         (/\ getDocumentOf(docs, docToSet.path) # <<>>
          /\ BumpingSet(keypair, docToSet))
         => /\ getDocumentOf(docs', docToSet.path) # <<>>
            /\ getDocumentOf(docs', docToSet.path)[1].timestamp
                  > getDocumentOf(docs, docToSet.path)[1].timestamp]_vars

----------------------------------------------------------------------------
(* C13 *)

\* C13: a set call with the timestamp omitted (or 0), a recognised format
\* and a document the validator signs and accepts returns Accepted and makes
\* the new document the latest at its path, whatever the path already holds.
C13_SetSupersedes ==
    [][\A keypair \in Keypairs, docToSet \in OrdinaryDocsToSet :
         BumpingSet(keypair, docToSet)
         => /\ last'.result = "Accepted"
            /\ LatestLive(docs', docToSet.path, now)
                  = set(docs, keypair, docToSet, now).doc]_vars

----------------------------------------------------------------------------
(* C14 *)

\* C14: for a set call with a deleteAfter given, the signed document has,
\* when the timestamp is omitted, timestamp = max(now, T + 1), T being the
\* timestamp of the latest document at the path (0 when there is none), and
\* deleteAfter = timestamp + (given deleteAfter - now); when the timestamp
\* is given, it has the given timestamp and the given deleteAfter.
C14_BumpKeepsLifespan ==
    [][\A keypair \in Keypairs, docToSet \in EphemeralDocsToSet :
         (/\ ~isClosed
          /\ keypair.secret = "good"
          /\ docToSet.deleteAfter \notin {Null, Some(0)}
          /\ set(docs, keypair, docToSet, now).doc # <<>>
          /\ Set(keypair, docToSet))
         => LET signed == set(docs, keypair, docToSet, now).doc[1]
                latest == LatestLive(docs, docToSet.path, now)
                T == IF latest = <<>> THEN 0 ELSE latest[1].timestamp
            IN IF docToSet.timestamp \in {Undefined, Some(0)}
               THEN /\ signed.timestamp = Max(now, T + 1)
                    /\ signed.deleteAfter
                          = Some(signed.timestamp + (docToSet.deleteAfter[1] - now))
               ELSE /\ signed.timestamp = docToSet.timestamp[1]
                    /\ signed.deleteAfter = docToSet.deleteAfter]_vars

----------------------------------------------------------------------------
(* C15 *)

\* C15: ingestDocument of a document of another workspace returns a
\* ValidationError, writes nothing and publishes no event, even when the
\* validator accepts the document; every stored document has the workspace
\* of the store.
C15_WorkspaceCheck ==
    [][/\ \A doc \in ValidatedDocs, isLocal \in BOOLEAN :
            (/\ doc.workspace # WORKSPACE
             /\ checkDocumentIsValid(doc, now)
             /\ IngestDocument(doc, isLocal))
            => /\ last'.result = "ValidationError"
               /\ docs' = docs
               /\ onWrite' = <<>>
       /\ \A d \in docs' : d.workspace = WORKSPACE]_vars

\* a store that holds a document has refused one the validator accepts
C15_Witness ==
    /\ last.op = "ingestDocument"
    /\ last.result = "ValidationError"
    /\ docs # {}

----------------------------------------------------------------------------
(* C16 *)

\* the sum of the content sizes of a list of documents
RECURSIVE SumLengths(_)
SumLengths(seq) ==
    IF seq = <<>> THEN 0 ELSE Len(Head(seq).content) + SumLengths(Tail(seq))

RECURSIVE SumBytes(_)
SumBytes(seq) ==
    IF seq = <<>> THEN 0
    ELSE Utf8ByteLength(Head(seq).content) + SumBytes(Tail(seq))

\* C16: limit bounds: the result of DriverMemory.documentQuery, of
\* StorageMinimal.documents and of MemoryDriver.documentQuery holds at most
\* q.limit documents when limit is set, and documents whose content sizes
\* sum to at most q.limitBytes when limitBytes is set; limit 0 or
\* limitBytes 0 gives an empty result.  (Sizes are counted as each
\* operation counts them: code units, and UTF-8 bytes in StorageMinimal.)
C16_LimitBounds ==
    last.op \in {"DriverMemory.documentQuery", "StorageMinimal.documents",
                 "MemoryDriver.documentQuery"}
    => /\ last.query.limit # Undefined
            => Len(last.result) <= last.query.limit[1]
       /\ last.query.limitBytes # Undefined
            => (IF last.op = "StorageMinimal.documents"
                THEN SumBytes(last.result) ELSE SumLengths(last.result))
                  <= last.query.limitBytes[1]
       /\ (last.query.limit = Some(0) \/ last.query.limitBytes = Some(0))
            => last.result = <<>>

----------------------------------------------------------------------------
(* C17 *)

\* the matches of the last StorageMinimal.documents call, sorted and cut
\* to q.limit, before limitBytes is applied
MinimalMatches ==
    storageMinimalDocuments(docs, [last.query EXCEPT !.limitBytes = Undefined], now)

\* document i of the list is one the result must stop before
MinimalStopsBefore(seq, limitBytes, i) ==
    \/ SumBytes(SubSeq(seq, 1, i)) > limitBytes
    \/ /\ SumBytes(SubSeq(seq, 1, i - 1)) = limitBytes
       /\ Utf8ByteLength(seq[i].content) = 0

\* C17: StorageMinimal.documents with limitBytes set returns the prefix of
\* the sorted, limit-truncated matches that stops before the first document
\* that would bring the cumulative UTF-8 byte count above limitBytes or that
\* is empty and reached when the count already equals limitBytes.
C17_MinimalLimitBytes ==
    (last.op = "StorageMinimal.documents" /\ last.query.limitBytes # Undefined)
    => LET stops == {i \in 1..Len(MinimalMatches) :
                        MinimalStopsBefore(MinimalMatches, last.query.limitBytes[1], i)}
       IN last.result =
            IF stops = {} THEN MinimalMatches
            ELSE SubSeq(MinimalMatches, 1,
                        (CHOOSE i \in stops : \A k \in stops : i <= k) - 1)

\* content sizes 0, 1, 2, 0, 3 in result order with limitBytes 3: the call
\* returned the first three documents
C17_Witness ==
    /\ last.op = "StorageMinimal.documents"
    /\ last.query.limitBytes = Some(3)
    /\ [i \in 1..Len(MinimalMatches) |-> Len(MinimalMatches[i].content)]
         = SubSeq(TestSizes, 1, 5)
    /\ last.result = SubSeq(MinimalMatches, 1, 3)

----------------------------------------------------------------------------
(* C18 *)

\* the matches of the last DriverMemory.documentQuery call, history-sorted
\* and cut to q.limit, before limitBytes is applied
DriverMatches ==
    documentQuery(docs, [last.query EXCEPT !.limitBytes = Undefined], Some(now))

\* the longest prefix of seq whose content lengths sum to at most limitBytes
LongestPrefixWithin(seq, limitBytes) ==
    LET fits == {k \in 0..Len(seq) : SumLengths(SubSeq(seq, 1, k)) <= limitBytes}
    IN SubSeq(seq, 1, CHOOSE k \in fits : \A j \in fits : j <= k)

\* C18 as stated: DriverMemory.documentQuery with limitBytes set returns the
\* longest prefix of the history-sorted, limit-truncated matches whose
\* content lengths sum to at most limitBytes, an empty document reached at
\* the limit included.
C18_AsStated ==
    (last.op = "DriverMemory.documentQuery" /\ last.query.limitBytes # Undefined)
    => last.result = LongestPrefixWithin(DriverMatches, last.query.limitBytes[1])

\* C18, amended: with limitBytes greater than 0 the result is that longest
\* prefix; with limitBytes 0 the result is empty, also when the first
\* matches have empty content.
C18_DriverLimitBytes ==
    (last.op = "DriverMemory.documentQuery" /\ last.query.limitBytes # Undefined)
    => last.result =
         IF last.query.limitBytes = Some(0) THEN <<>>
         ELSE LongestPrefixWithin(DriverMatches, last.query.limitBytes[1])

\* content sizes 0, 1, 2, 0, 3, 5 in history order with limitBytes 3: the
\* call returned the first four documents
C18_Witness ==
    /\ last.op = "DriverMemory.documentQuery"
    /\ last.query.limitBytes = Some(3)
    /\ [i \in 1..Len(DriverMatches) |-> Len(DriverMatches[i].content)] = TestSizes
    /\ last.result = SubSeq(DriverMatches, 1, 4)

----------------------------------------------------------------------------
(* C19 *)

\* the queries paths is probed with
PathProbeQueries ==
    LimitQueries
      \cup {[EmptyQuery EXCEPT !.path = Some(p)] : p \in Paths}
      \cup {[EmptyQuery EXCEPT !.author = Some(a)] : a \in Authors}

\* C19: paths(q) returns the ascending, duplicate-free list of the paths of
\* the live documents that match the selectors of q, cut to its first
\* q.limit paths when limit is set, whatever q.limitBytes is.
C19_PathsResult ==
    ~isClosed
    => \A q \in PathProbeQueries :
         LET all == SortStrings({d.path : d \in {e \in docs :
                                     IsLive(e, now) /\ queryMatchesDoc(q, e)}})
         IN paths(q).value
              = IF q.limit # Undefined THEN Slice(all, q.limit[1]) ELSE all

----------------------------------------------------------------------------
(* C20 *)

\* the sorted, duplicate-free list of the paths of a list of documents
PathsOfResult(found) == SortStrings({found[i].path : i \in 1..Len(found)})

\* C20 as stated: DriverMemory.pathQuery(q, now) equals the sorted,
\* duplicate-free list of the paths of the documents returned by
\* DriverMemory.documentQuery(q, now), for every q.
C20_AsStated ==
    last.op = "DriverMemory.pathQuery"
    => last.result = PathsOfResult(documentQuery(docs, last.query, Some(now)))

\* C20, amended: pathQuery(q, now) equals the first q.limit entries (all of
\* them when limit is not set) of the sorted, duplicate-free list of the
\* paths of the documents returned by documentQuery for q without its limit.
C20_PathQueryOfDocumentQuery ==
    last.op = "DriverMemory.pathQuery"
    => LET all == PathsOfResult(documentQuery(
                      docs, [last.query EXCEPT !.limit = Undefined], Some(now)))
       IN last.result = IF last.query.limit # Undefined
                        THEN Slice(all, last.query.limit[1])
                        ELSE all

\* a pathQuery with a limit on a store with two authors at one path
\* returned more paths than the documents of documentQuery have
C20_Witness ==
    /\ last.op = "DriverMemory.pathQuery"
    /\ last.query.limit = Some(2)
    /\ Len(last.result) = 2
    /\ Cardinality(docs) > Cardinality(PathsOf(docs))
    /\ Len(PathsOfResult(documentQuery(docs, last.query, Some(now)))) = 1

----------------------------------------------------------------------------
(* C21 *)

\* seq is in history order: path ascending, then timestamp descending,
\* then signature descending
InHistoryOrder(seq) ==
    \A i, j \in 1..Len(seq) :
        i < j =>
          \/ StrLt(seq[i].path, seq[j].path)
          \/ /\ seq[i].path = seq[j].path
             /\ \/ seq[i].timestamp > seq[j].timestamp
                \/ /\ seq[i].timestamp = seq[j].timestamp
                   /\ StrLe(seq[j].signature, seq[i].signature)

IsPrefix(short, long) ==
    Len(short) <= Len(long) /\ short = SubSeq(long, 1, Len(short))

\* C21: the result of DriverMemory.documentQuery and of
\* StorageMinimal.documents is ordered by path ascending, then timestamp
\* descending, then signature descending, for every query and store content,
\* and limit and limitBytes cut that ordered list: the result is a prefix of
\* the ordered list the query gives without them.
C21_HistoryOrder ==
    /\ last.op = "DriverMemory.documentQuery"
       => LET all == documentQuery(docs, [last.query EXCEPT !.limit = Undefined,
                                             !.limitBytes = Undefined], Some(now))
          IN InHistoryOrder(all) /\ IsPrefix(last.result, all)
    /\ last.op = "StorageMinimal.documents"
       => LET all == storageMinimalDocuments(
                         docs, [last.query EXCEPT !.limit = Undefined,
                                                  !.limitBytes = Undefined], now)
          IN InHistoryOrder(all) /\ IsPrefix(last.result, all)

----------------------------------------------------------------------------
(* C22 *)

\* C22: constructing a Storage2 throws a ValidationError when the validator
\* list is empty, and throws the workspace error of the first validator when
\* every validator rejects the workspace address, and in both cases
\* driver.begin is never called; when at least one validator, not
\* necessarily the first, accepts the workspace, construction succeeds and
\* calls driver.begin exactly once.
C22_Constructor ==
    last.op = "constructor"
    => LET validators == last.validators
           accepts(i) == last.workspace \in validators[i].accepted
       IN IF Len(validators) = 0
          THEN /\ Len(last.threw) = 1
               /\ last.threw[1].name = "ValidationError"
               /\ driver.begin = 0
          ELSE IF \A i \in 1..Len(validators) : ~accepts(i)
          THEN /\ last.threw = checkWorkspaceIsValid(validators[1], last.workspace)
               /\ last.threw # <<>>
               /\ driver.begin = 0
          ELSE /\ last.threw = <<>>
               /\ driver.begin = 1

\* a validator list whose first validator rejects the workspace and whose
\* second accepts it was given, and the store was constructed
C22_Witness ==
    /\ last.op = "constructor"
    /\ Len(last.validators) = 2
    /\ last.workspace \notin last.validators[1].accepted
    /\ last.workspace \in last.validators[2].accepted
    /\ last.threw = <<>>
    /\ driver.begin = 1

----------------------------------------------------------------------------
(* C28 *)

\* C28: over any sequence of operations on one Storage2, driver.close is
\* invoked at most once: a close() on an already closed store does not
\* reach the driver again.
C28_DriverClosedOnce == driver.close <= 1

----------------------------------------------------------------------------
(* C23 *)

\* the latest-only query for the paths with non-empty content
NonEmptyHeads == [EmptyQuery EXCEPT !.isHead = TRUE, !.contentSize_gt = Some(0)]

----------------------------------------------------------------------------
(* C24 *)

\* C24: DriverMemory.upsertDocument stores the given document in its
\* (path, author) slot whatever the timestamp and signature of the document
\* already there: right after every upsert, documentQuery for the slot
\* returns exactly the document upserted last, also when the document it
\* replaced had a higher timestamp.
C24_UpsertUnconditional ==
    [][\A doc \in OrdinaryDocs :
         UpsertDocument(doc)
         => documentQuery(docs', [EmptyQuery EXCEPT !.path = Some(doc.path),
                                                    !.author = Some(doc.author)],
                          Some(now')) = <<doc>>]_vars

\* an upsert has replaced a document with a higher timestamp, and the
\* driver returns the upserted one for the slot
C24_Witness ==
    /\ last.op = "upsertDocument"
    /\ \E old \in last.previous, doc \in docs :
         /\ SameSlot(old, doc)
         /\ old.timestamp > doc.timestamp
         /\ documentQuery(docs, [EmptyQuery EXCEPT !.path = Some(doc.path),
                                                   !.author = Some(doc.author)],
                          Some(now)) = <<doc>>

----------------------------------------------------------------------------
(* C25 *)

\* C25: once close() has been called on an EarthstarPeer its lifecycle
\* state is 'closed' in every later state: no operation and no interleaving,
\* a hatch() started before close() and resumed after it included, brings
\* the peer back to 'ready'.
C25_ClosedIsPermanent ==
    [][peer.lifecycle = "closed" => peer'.lifecycle = "closed"]_vars

----------------------------------------------------------------------------
(* C26 *)

\* the peer list, the workspace list and the kvStore of a peer
PeerData(p) == <<p.peers, p.storages, p.kvStore>>

\* a call of a method other than hatch, close, isReady and isClosed
GuardedCall ==
    \/ \E workspace \in PeerWorkspaces : AddWorkspace(workspace)
    \/ ReadPeer
    \/ \E workspace \in PeerWorkspaces : RemoveAndCloseWorkspace(workspace)
    \/ \E peerUrl \in PeerUrls : AddPeer(peerUrl)
    \/ \E peerUrl \in PeerUrls, partialInfo \in PartialInfos :
          UpdatePeer(peerUrl, partialInfo)
    \/ \E peerUrl \in PeerUrls : RemovePeer(peerUrl)

\* C26: every EarthstarPeer method other than hatch, close, isReady and
\* isClosed throws a PeerLifecycleError when the peer is notYetHatched or
\* closed, and then changes neither the peer list, the workspace list nor
\* the kvStore; hatch throws a PeerLifecycleError unless the state is
\* notYetHatched, so a peer becomes ready at most once.
C26_LifecycleGuards ==
    [][/\ (GuardedCall /\ peer.lifecycle # "ready")
          => /\ peer'.result = "PeerLifecycleError"
             /\ PeerData(peer') = PeerData(peer)
             /\ peer'.lifecycle = peer.lifecycle
       /\ (Hatch /\ peer.lifecycle # "notYetHatched")
          => /\ peer'.result = "PeerLifecycleError"
             /\ peer'.hatching = peer.hatching
             /\ peer'.lifecycle = peer.lifecycle
       /\ peer'.readied <= 1]_vars

----------------------------------------------------------------------------
(* C27 *)

\* C27: a call on Storage3ToAsync resolves to the value the same call with
\* the same arguments returns on the wrapped synchronous storage, and
\* rejects when that call throws; in particular getContent(path) resolves
\* to getContent(path) of the wrapped storage, and isClosed() stays
\* synchronous and equal to isClosed() of the wrapped storage.
C27_WrapperEquivalence ==
    /\ last.op = "getConfig"
       => last.result = Promise(Returned(getConfig(last.arg)))
    /\ last.op = "getDocument"
       => last.result = Promise(getDocument(last.arg))
    /\ last.op = "getContent"
       => last.result = Promise(getContent(last.arg))
    /\ last.op = "isClosed"
       => last.result = isClosed

----------------------------------------------------------------------------
(* C29 *)

\* the (timestamp, signature)-maximum document of each path, among all the
\* versions the store holds
HeadsOf(D) == {PairMax({d \in D : d.path = path}) : path \in PathsOf(D)}

Unlimited(query) == query.limit = Undefined /\ query.limitBytes = Undefined

\* C29: in a latest-only query the memory store first reduces each path to
\* its single (timestamp, signature)-maximum document among all stored
\* versions, then applies the selectors, then drops expired documents: the
\* result holds maximum documents that match and are live only, all of
\* them when the query has no limit, so a path whose maximum document fails
\* a selector or is expired contributes no document, even when another
\* version at that path matches and is live.
C29_LatestOnlyFold ==
    /\ (last.op = "DriverMemory.documentQuery" /\ last.query.isHead)
       => LET expected == {h \in HeadsOf(docs) :
                              queryMatchesDoc(last.query, h) /\ IsLive(h, now)}
          IN /\ Range(last.result) \subseteq expected
             /\ Unlimited(last.query) => Range(last.result) = expected
    /\ (last.op = "StorageMinimal.documents" /\ last.query.history # Some("all"))
       => LET expected == {h \in HeadsOf(docs) :
                              minimalQueryMatchesDoc(last.query, h) /\ IsLive(h, now)}
          IN /\ Range(last.result) \subseteq expected
             /\ Unlimited(last.query) => Range(last.result) = expected

\* a latest-only query of the driver returned nothing for a path whose
\* maximum document is expired, or fails the author selector, while another
\* version at the path is live and matches
C29_Witness ==
    /\ last.op = "DriverMemory.documentQuery"
    /\ last.query.isHead
    /\ Unlimited(last.query)
    /\ last.result = <<>>
    /\ \E h \in HeadsOf(docs), other \in docs :
         /\ other.path = h.path
         /\ other # h
         /\ IsExpired(h, now) \/ ~queryMatchesDoc(last.query, h)
         /\ IsLive(other, now)
         /\ queryMatchesDoc(last.query, other)

----------------------------------------------------------------------------
(* C30 *)

\* C30: after an expiry sweep with clock value now, by
\* DriverMemory.removeExpiredDocs(now) or by
\* StorageMinimal.discardExpiredDocuments(), the store holds no document
\* with deleteAfter < now, every document that is not expired is still
\* stored unchanged, and a path left with no document is no longer held.
C30_ExpirySweep ==
    [][(RemoveExpiredDocs \/ DiscardExpiredDocuments)
       => /\ \A d \in docs' : ~(d.deleteAfter # Null /\ d.deleteAfter[1] < now)
          /\ \A d \in docs : IsLive(d, now) => d \in docs'
          /\ last'.paths = PathsOf(docs')]_vars

----------------------------------------------------------------------------
(* C31 *)

\* the calls completed on the wrapper were calls of ingestDocument and set
OnlyWrites ==
    \A i \in 1..Len(calls.completed) : calls.completed[i].result # "direct"

\* C31: when several ingestDocument and set calls for one slot are issued
\* through Storage3ToAsync and suspend for arbitrary times, each call's
\* predecessor read, upsert and isLatest read run as one step, so in every
\* interleaving the slot holds the (timestamp, signature)-maximum of the
\* documents ingested, and the write events appear in the order the calls
\* complete.
C31_SerializedWrites ==
    OnlyWrites =>
      /\ docs \subseteq ingested
      /\ \A d \in ingested : PairMax({e \in ingested : SameSlot(e, d)}) \in docs
      /\ LET accepted == SelectSeq(calls.completed,
                                   LAMBDA c : c.result = "Accepted")
         IN /\ Len(calls.events) = Len(accepted)
            /\ \A i \in 1..Len(accepted) :
                 calls.events[i].document = accepted[i].doc[1]

\* three calls for the slot have completed in an order other than that of
\* their documents, the last of them was ignored, and no call sleeps
C31_Witness ==
    /\ OnlyWrites
    /\ calls.sleeping = {}
    /\ Len(calls.completed) = MaxAsyncCalls
    /\ calls.completed[MaxAsyncCalls].result = "Ignored"
    /\ Len(calls.events) >= 1
    /\ \E d \in docs : \A e \in ingested : PairLe(e, d)

----------------------------------------------------------------------------
(* C32 *)

\* C32: StorageMinimal.forgetDocuments(q) with history 'all' removes every
\* stored document that matches q's selectors and leaves every other
\* document stored and unchanged; with any other history it throws a
\* ValidationError and removes nothing, except that a query with limit 0 or
\* limitBytes 0 returns without removing anything and without an error.
C32_Forget ==
    [][last'.op = "forgetDocuments" =>
         LET q == last'.query
             matches(d) == q.author = Undefined \/ d.author = q.author[1]
         IN IF q.limit = Some(0) \/ q.limitBytes = Some(0)
            THEN docs' = docs /\ last'.result = "returned"
            ELSE IF q.history # Some("all")
            THEN docs' = docs /\ last'.result = "ValidationError"
            ELSE /\ last'.result = "returned"
                 /\ docs' = {d \in docs : ~matches(d)}
                 /\ last'.paths = PathsOf(docs')]_vars

\* a forget by author with history 'all' has removed one of the two
\* documents of a path and kept the other
C32_Witness ==
    /\ last.op = "forgetDocuments"
    /\ last.query.history = Some("all")
    /\ last.query.author # Undefined
    /\ last.replaced
    /\ docs # {}
    /\ \A d \in docs : d.author # last.query.author[1]

----------------------------------------------------------------------------
(* C33 *)

\* C33: an ingestDocument or set call that returns Ignored or a
\* ValidationError (unknown format, validator rejection, workspace
\* mismatch, timestamp out of bounds in set, signing failure) leaves the set
\* of stored documents exactly as it was before the call.
C33_RejectedWritesKeepTheStore ==
    [][(/\ last'.op \in {"ingestDocument", "set"}
        /\ last'.result \in {"Ignored", "ValidationError"}) => docs' = docs]_vars

\* an ingestDocument of a document the validator accepts was ignored by a
\* store that holds documents
C33_Witness ==
    /\ last.op = "ingestDocument"
    /\ last.result = "Ignored"
    /\ docs # {}
    /\ onWrite = <<>>

----------------------------------------------------------------------------
(* C37 *)

\* C37: Storage2.set leaves the caller's docToSet object unchanged, so a
\* docToSet with the timestamp omitted that is passed to set a second time,
\* with new content, is again handled as a timestamp-omitted write: its
\* timestamp is bumped above the latest document at the path and the call
\* returns Accepted.
C37_SetKeepsDocToSet ==
    [][/\ last'.op \in {"set", "setAgain"} => last'.docToSet = last'.given
       /\ (/\ last'.op = "setAgain"
           /\ now' = now
           /\ last'.address \in {k.address : k \in {x \in Keypairs : x.secret = "good"}}
           /\ last'.given.format \in validatorMap) =>
              /\ last'.result = "Accepted"
              /\ \E d \in docs' :
                   /\ d.path = last'.given.path
                   /\ d.author = last'.address
                   /\ d.content = last'.given.content
                   /\ \A e \in docs : e.path = d.path => d.timestamp > e.timestamp]_vars

----------------------------------------------------------------------------
(* C34 *)

\* C34: on the same upserts, for every query q and clock value,
\* DriverSqlite.documentQuery(q, now) returns the same list of documents, in
\* the same order, as DriverMemory.documentQuery(q, now): only documents
\* that match q's selectors and are not expired, ordered by path ascending,
\* timestamp descending, signature descending, with limits applied.
C34_SqliteAsMemory ==
    last.op = "DriverSqlite.documentQuery" =>
        /\ last.result = documentQuery(docs, last.query, Some(now))
        /\ \A i \in 1..Len(last.result) :
             /\ queryMatchesDoc(cleanUpQuery(last.query), last.result[i])
             /\ ~IsExpired(last.result[i], now)
        /\ InHistoryOrder(last.result)
        /\ last.query.limit # Undefined => Len(last.result) <= last.query.limit[1]

----------------------------------------------------------------------------
(* C35 *)

\* C35: DriverSqlite.begin throws when the config table holds a
\* schemaVersion other than '1' and then stores no document and changes no
\* config entry; it writes schemaVersion '1' when none is stored; after every
\* successful begin getConfig('schemaVersion') is '1' and no stored document
\* has deleteAfter below the wall-clock time of the begin.
C35_Begin ==
    [][driver'.begin = driver.begin + 1 =>
         IF config[SchemaVersionKey] \notin {Undefined, Some(<<49>>)}
         THEN /\ last'.result = "Error"
              /\ docs' = docs
              /\ config' = config
         ELSE /\ last'.result = "returned"
              /\ config'[SchemaVersionKey] = Some(<<49>>)
              /\ \A key \in SqliteConfigKeys \ {SchemaVersionKey} :
                   config'[key] = config[key]
              /\ docs' \subseteq docs
              /\ \A d \in docs' :
                   d.deleteAfter = Null \/ d.deleteAfter[1] >= now]_vars

\* a begin on a file without a schemaVersion has written it and has deleted
\* an expired document, keeping another
C35_Witness ==
    /\ last.op = "DriverSqlite.begin"
    /\ last.result = "returned"
    /\ last.wrote
    /\ last.replaced
    /\ docs # {}
    /\ config[SchemaVersionKey] = Some(<<49>>)

----------------------------------------------------------------------------
(* C36 *)

\* the peer table a new EarthstarPeer has after hatch() on kvStore
LoadedFrom(kvStore) == hatchResume(hatch(PeerOn(kvStore))).peers

\* C36: after any sequence of addPeer, updatePeer and removePeer calls on a
\* ready EarthstarPeer has completed, in any interleaving, the kvStore value
\* under '-peers' is the JSON form of the peer's in-memory peer table, so a
\* new EarthstarPeer hatched on the same kvStore lists the same peer infos;
\* addPeer for a known URL changes neither that peer's info nor the
\* kvStore, and removePeer for an unknown URL leaves the peer table
\* unchanged.  The kvStore value is the one a get() finds.
C36_PeersPersisted ==
    [][/\ (/\ peer'.lifecycle = "ready"
           /\ last'.op \in {"addPeer", "updatePeer", "removePeer"}
           /\ last'.result = "none")
          => /\ kvStoreGet(peer'.kvStore, "peers") = Some(JsonStringify(peer'.peers))
             /\ LoadedFrom(peer'.kvStore) = peer'.peers
       /\ \A peerUrl \in PeerUrls :
            (/\ AddPeer(peerUrl)
             /\ peer.lifecycle = "ready"
             /\ peer.peers[peerUrl] # Undefined) =>
                /\ peer'.peers[peerUrl] = peer.peers[peerUrl]
                /\ peer'.kvStore = peer.kvStore
       /\ \A peerUrl \in PeerUrls :
            (/\ RemovePeer(peerUrl)
             /\ peer.lifecycle = "ready"
             /\ peer.peers[peerUrl] = Undefined) =>
                peer'.peers = peer.peers]_vars

----------------------------------------------------------------------------
(* C38 *)

\* C38: after removeAndCloseWorkspace(w) completes on a ready EarthstarPeer
\* that holds a storage for w, that storage is closed, listWorkspaces() no
\* longer contains w and getWorkspaceStorage(w) returns undefined, so no
\* closed storage stays reachable through the peer; the peer holds at most
\* one storage per workspace address.
C38_RemovedWorkspaceIsGone ==
    [][(RemoveResume /\ peer.lifecycle = "ready") =>
         \A workspace \in PeerWorkspaces :
             peer'.storages[workspace] # Some("closed")]_vars

----------------------------------------------------------------------------
(* C39 *)

\* C39: in every reachable state of a ready EarthstarPeer each entry of the
\* peer table stored under key url has peerUrl equal to url, after any
\* sequence of addPeer, updatePeer (with any partial info) and removePeer
\* calls; updatePeer for an unknown URL throws and leaves the peer table and
\* the kvStore unchanged.
C39_PeerUrlIsKey ==
    [][/\ peer'.lifecycle = "ready" =>
            \A peerUrl \in PeerUrls :
                peer'.peers[peerUrl] # Undefined =>
                    peer'.peers[peerUrl][1].peerUrl = peerUrl
       /\ \A peerUrl \in PeerUrls, partialInfo \in PartialInfos :
            (/\ UpdatePeer(peerUrl, partialInfo)
             /\ peer.lifecycle = "ready"
             /\ peer.peers[peerUrl] = Undefined) =>
                /\ peer'.result = "Error"
                /\ peer'.peers = peer.peers
                /\ peer'.kvStore = peer.kvStore]_vars

====
